---- MODULE Spec2Model ----
(***************************************************************************)
(* A model of the Cursor localisation patcher (scripts/apply.js and the    *)
(* Diagnoser of scripts/diagnose.js, shipped inside cursor-cli.js).        *)
(*                                                                         *)
(* Text is a sequence of UTF-16 code units, each a string: the character   *)
(* itself, or "U+XXXX" for a code unit outside ASCII.  Files are such      *)
(* sequences, or Absent.                                                   *)
(*                                                                         *)
(* The logging / presentation layer (Logger.*, PerformanceMonitor) is an   *)
(* external collaborator of the patcher (spec section 1): its calls change *)
(* no file and are not part of the file or substitution state modelled     *)
(* here.                                                                   *)
(***************************************************************************)
EXTENDS Integers, Sequences, FiniteSets, TLC

(***************************************************************************)
(* Characters                                                              *)
(***************************************************************************)
DQ == "\""
SQ == "'"
BS == "\\"
DOLLAR == "$"
AMP == "&"
BT == "BACKTICK"
DOT == "."
NL == "n"

Quotes == {DQ, SQ}

\* the characters String.prototype.trim removes
WhiteSpace == {" ", "\t", "\r", "\n"}

Digits == {"0", "1", "2", "3", "4", "5", "6", "7", "8", "9"}

DigitVal(c) ==
    CASE c = "0" -> 0 [] c = "1" -> 1 [] c = "2" -> 2 [] c = "3" -> 3
      [] c = "4" -> 4 [] c = "5" -> 5 [] c = "6" -> 6 [] c = "7" -> 7
      [] c = "8" -> 8 [] c = "9" -> 9

(***************************************************************************)
(* String helpers (String.prototype.substring, includes, trim)             *)
(***************************************************************************)
\* s.substring(i - 1): the suffix of s that starts at position i
From(s, i) == SubSeq(s, i, Len(s))

\* pat occurs in s at position i
OccursAt(s, i, pat) ==
    /\ i >= 1
    /\ i + Len(pat) - 1 <= Len(s)
    /\ \A k \in 1..Len(pat) : s[i + k - 1] = pat[k]

\* String.prototype.includes
Includes(s, pat) == \E i \in 1..(Len(s) + 1) : OccursAt(s, i, pat)

\* value.trim() === ''
IsBlank(s) == \A k \in 1..Len(s) : s[k] \in WhiteSpace

(***************************************************************************)
(* Regular expressions, as far as apply.js builds them:                    *)
(*     new RegExp(`(["'])${escapeRegExp(original)}\\1`, 'g')               *)
(* The pattern source is a string; RegExp parses it into atoms.            *)
(***************************************************************************)
\* the characters of the class [.*+?^${}()|[\]\\] of escapeRegExp
EscapedMeta == {".", "*", "+", "?", "^", "$", "{", "}", "(", ")", "|", "[", "]", BS}

\* the characters that are syntax when they stand unescaped in a pattern
RegExpSyntax == {".", "*", "+", "?", "^", "$", "{", "}", "(", ")", "|", "[", "]", BS}

\* escapeRegExp that escapes nothing
escapeRegExp_none(string) == string

RECURSIVE escapeRegExp(_)
\* string.replace(/[.*+?^${}()|[\]\\]/g, '\\$&'): a backslash before each of them
escapeRegExp(string) ==
    IF string = <<>> THEN <<>>
    ELSE LET c == Head(string)
         IN  (IF c \in EscapedMeta THEN <<BS, c>> ELSE <<c>>)
                 \o escapeRegExp(Tail(string))

RECURSIVE RegExpAtoms(_)
\* the atoms RegExp parses from the part of the pattern source between
\* (["']) and \1: "lit" matches one given character, "any" is the dot,
\* "bad" stands for syntax this model does not interpret (a quantifier,
\* an anchor, a group, a class, a trailing backslash)
RegExpAtoms(src) ==
    IF src = <<>> THEN <<>>
    ELSE LET c == Head(src)
         IN  IF c = BS
             THEN IF Len(src) >= 2 /\ src[2] \in RegExpSyntax
                  THEN <<[kind |-> "lit", ch |-> src[2]]>> \o RegExpAtoms(From(src, 3))
                  ELSE <<[kind |-> "bad", ch |-> c]>> \o RegExpAtoms(Tail(src))
             ELSE IF c = DOT
             THEN <<[kind |-> "any", ch |-> c]>> \o RegExpAtoms(Tail(src))
             ELSE IF c \in RegExpSyntax
             THEN <<[kind |-> "bad", ch |-> c]>> \o RegExpAtoms(Tail(src))
             ELSE <<[kind |-> "lit", ch |-> c]>> \o RegExpAtoms(Tail(src))

\* new RegExp(...) or the match raises for a pattern outside the fragment
RegExpThrows(atoms) == \E k \in 1..Len(atoms) : atoms[k].kind = "bad"

\* the regex (["'])<atoms>\1 matches content at position i
\* (the dot matches any character but a line terminator)
MatchAt(content, i, atoms) ==
    /\ i >= 1
    /\ i + Len(atoms) + 1 <= Len(content)
    /\ content[i] \in Quotes
    /\ \A k \in 1..Len(atoms) :
          \/ atoms[k].kind = "lit" /\ content[i + k] = atoms[k].ch
          \/ atoms[k].kind = "any" /\ content[i + k] \notin {"\n", "\r"}
    /\ content[i + Len(atoms) + 1] = content[i]

RECURSIVE Expand(_, _, _, _, _)
\* GetSubstitution of String.prototype.replace for a regex with one capture
\* group: repl is the replacement string, matched the matched text, g1 the
\* capture, before / after the text around the match
Expand(repl, matched, g1, before, after) ==
    IF repl = <<>> THEN <<>>
    ELSE IF Head(repl) # DOLLAR \/ Len(repl) = 1
    THEN <<Head(repl)>> \o Expand(Tail(repl), matched, g1, before, after)
    ELSE LET c == repl[2]
         IN  IF c = DOLLAR
             THEN <<DOLLAR>> \o Expand(From(repl, 3), matched, g1, before, after)
             ELSE IF c = AMP
             THEN matched \o Expand(From(repl, 3), matched, g1, before, after)
             ELSE IF c = BT
             THEN before \o Expand(From(repl, 3), matched, g1, before, after)
             ELSE IF c = SQ
             THEN after \o Expand(From(repl, 3), matched, g1, before, after)
             ELSE IF c \in Digits /\ Len(repl) >= 3 /\ repl[3] \in Digits
                     /\ 10 * DigitVal(c) + DigitVal(repl[3]) = 1
             THEN g1 \o Expand(From(repl, 4), matched, g1, before, after)
             ELSE IF c \in Digits /\ DigitVal(c) = 1
             THEN g1 \o Expand(From(repl, 3), matched, g1, before, after)
             ELSE <<DOLLAR>> \o Expand(Tail(repl), matched, g1, before, after)

RECURSIVE ReplaceFrom(_, _, _, _)
\* content.replace(regex, replacementString) with the g flag, from position
\* i on: matches are found left to right and do not overlap
ReplaceFrom(content, i, atoms, repl) ==
    IF i > Len(content) THEN <<>>
    ELSE IF MatchAt(content, i, atoms)
    THEN LET n == Len(atoms) + 2
         IN  Expand(repl, SubSeq(content, i, i + n - 1), <<content[i]>>,
                    SubSeq(content, 1, i - 1), From(content, i + n))
                 \o ReplaceFrom(content, i + n, atoms, repl)
    ELSE <<content[i]>> \o ReplaceFrom(content, i + 1, atoms, repl)

RECURSIVE EscapeDollars(_)
\* original.replace(/\$/g, '$$$$'): each "$" becomes the expansion of "$$$$"
EscapeDollars(original) ==
    IF original = <<>> THEN <<>>
    ELSE (IF Head(original) = DOLLAR
          THEN Expand(<<DOLLAR, DOLLAR, DOLLAR, DOLLAR>>, <<DOLLAR>>, <<>>, <<>>, <<>>)
          ELSE <<Head(original)>>)
             \o EscapeDollars(Tail(original))

(***************************************************************************)
(* Dictionaries.  A JavaScript object with string keys is the sequence of  *)
(* its entries <<key, value>> in insertion order (Object.entries); keys    *)
(* are unique.  A grouped dictionary is such a sequence of                 *)
(* <<groupName, group>>.  NotAString stands for any value that is not a    *)
(* string (null, a number, a nested object).                               *)
(***************************************************************************)
NotAString == <<"NotAString">>

\* a value whose conversion to a string raises a TypeError (a Symbol): the
\* template literal that builds the replacement string throws on it
ASymbol == <<"ASymbol">>

Keys(obj) == {obj[k][1] : k \in 1..Len(obj)}

HasKey(obj, key) == \E k \in 1..Len(obj) : obj[k][1] = key

\* obj[key], for a key of obj
Get(obj, key) == obj[CHOOSE k \in 1..Len(obj) : obj[k][1] = key][2]

\* obj[key] = value: a known key keeps its place, a new one goes last
Put(obj, key, value) ==
    IF HasKey(obj, key)
    THEN [k \in 1..Len(obj) |-> IF obj[k][1] = key THEN <<key, value>> ELSE obj[k]]
    ELSE Append(obj, <<key, value>>)

\* !value || typeof value !== 'string' || value.trim() === ''
InvalidValue(value) == value = NotAString \/ value = <<>> \/ IsBlank(value)

RECURSIVE FlattenGroup(_, _, _)
\* the inner loop of flattenTranslations over one group's entries
FlattenGroup(translations, groupName, group) ==
    IF group = <<>> THEN translations
    ELSE LET key == Head(group)[1]
             value == Head(group)[2]
         IN  IF InvalidValue(value)
             THEN FlattenGroup(translations, groupName, Tail(group))
             ELSE FlattenGroup(Put(translations, groupName \o <<DOT>> \o key, value),
                               groupName, Tail(group))

RECURSIVE FlattenFrom(_, _)
FlattenFrom(translations, groupedTranslations) ==
    IF groupedTranslations = <<>> THEN translations
    ELSE FlattenFrom(FlattenGroup(translations, Head(groupedTranslations)[1],
                                  Head(groupedTranslations)[2]),
                     Tail(groupedTranslations))

\* TranslationProcessor.flattenTranslations
flattenTranslations(groupedTranslations) == FlattenFrom(<<>>, groupedTranslations)

\* entry e goes behind every entry whose key is at least as long
InsertByLength(sorted, e) ==
    LET n == Cardinality({k \in 1..Len(sorted) : Len(sorted[k][1]) >= Len(e[1])})
    IN  SubSeq(sorted, 1, n) \o <<e>> \o From(sorted, n + 1)

RECURSIVE SortFrom(_, _)
\* the entries placed one after another, first to last (evaluated half by
\* half, each half before the next is begun, to keep the evaluation shallow)
SortFrom(sorted, entries) ==
    IF entries = <<>> THEN sorted
    ELSE IF Len(entries) = 1 THEN InsertByLength(sorted, Head(entries))
    ELSE LET half == Len(entries) \div 2
             next == SortFrom(sorted, SubSeq(entries, 1, half))
         IN  CASE Len(next) > 0 -> SortFrom(next, From(entries, half + 1))

\* Object.entries(translations).sort((a, b) => b[0].length - a[0].length):
\* longest key first, entries of equal length in their former order
sortedEntries(translations) == SortFrom(<<>>, translations)

\* the replacement string of one pair
replacementString(original, translated, mode) ==
    IF mode = "bilingual"
    THEN <<DOLLAR, "1">> \o EscapeDollars(original) \o <<BS, NL>> \o translated
             \o <<DOLLAR, "1">>
    ELSE <<DOLLAR, "1">> \o translated \o <<DOLLAR, "1">>

\* the loop body without its catch clause recording anything
ApplyPair_unrecorded(acc, original, translated, mode) ==
    LET atoms == RegExpAtoms(escapeRegExp(original))
    IN  IF RegExpThrows(atoms) \/ translated = ASymbol
        THEN acc
        ELSE LET content == ReplaceFrom(acc.content, 1, atoms,
                                        replacementString(original, translated, mode))
             IN  IF acc.content # content
                 THEN [acc EXCEPT !.content = content,
                                  !.replacementsCount = @ + 1]
                 ELSE [acc EXCEPT !.notFound = Append(@, original)]

\* the body of the loop of applyTranslations for one pair: acc is
\* [content, replacementsCount, notFound, errors]
ApplyPair(acc, original, translated, mode) ==
    LET atoms == RegExpAtoms(escapeRegExp(original))
    IN  IF RegExpThrows(atoms) \/ translated = ASymbol
        THEN [acc EXCEPT !.errors = Append(@, original)]
        ELSE LET content == ReplaceFrom(acc.content, 1, atoms,
                                        replacementString(original, translated, mode))
             IN  IF acc.content # content
                 THEN [acc EXCEPT !.content = content,
                                  !.replacementsCount = @ + 1]
                 ELSE [acc EXCEPT !.notFound = Append(@, original)]

RECURSIVE ApplyPairs(_, _, _)
\* the loop over the sorted entries; the guard has each pair evaluated
\* before the next one is begun, as the loop does
ApplyPairs(acc, entries, mode) ==
    IF entries = <<>> THEN acc
    ELSE IF Len(entries) = 1
    THEN ApplyPair(acc, Head(entries)[1], Head(entries)[2], mode)
    ELSE LET half == Len(entries) \div 2
             next == ApplyPairs(acc, SubSeq(entries, 1, half), mode)
         IN  CASE next.replacementsCount >= 0 ->
                     ApplyPairs(next, From(entries, half + 1), mode)

\* TranslationProcessor.applyTranslations(content, translations, mode)
TranslationProcessor_applyTranslations(content, translations, mode) ==
    ApplyPairs([content |-> content, replacementsCount |-> 0,
                notFound |-> <<>>, errors |-> <<>>],
               sortedEntries(translations), mode)

(***************************************************************************)
(* The built-in dictionaries.  A code unit outside ASCII is written by its *)
(* code point.                                                             *)
(***************************************************************************)
\* the table of createFallbackTranslations
commonFallbacks ==
    << <<<<"S", "e", "t", "t", "i", "n", "g", "s">>, <<"U+8BBE", "U+7F6E">>>>,
       <<<<"P", "r", "e", "f", "e", "r", "e", "n", "c", "e", "s">>, <<"U+504F", "U+597D", "U+8BBE", "U+7F6E">>>>,
       <<<<"G", "e", "n", "e", "r", "a", "l">>, <<"U+5E38", "U+89C4">>>>,
       <<<<"A", "d", "v", "a", "n", "c", "e", "d">>, <<"U+9AD8", "U+7EA7">>>>,
       <<<<"C", "a", "n", "c", "e", "l">>, <<"U+53D6", "U+6D88">>>>,
       <<<<"O", "K">>, <<"U+786E", "U+5B9A">>>>,
       <<<<"A", "p", "p", "l", "y">>, <<"U+5E94", "U+7528">>>>,
       <<<<"S", "a", "v", "e">>, <<"U+4FDD", "U+5B58">>>>,
       <<<<"C", "l", "o", "s", "e">>, <<"U+5173", "U+95ED">>>>,
       <<<<"O", "p", "e", "n">>, <<"U+6253", "U+5F00">>>>,
       <<<<"E", "d", "i", "t">>, <<"U+7F16", "U+8F91">>>>,
       <<<<"D", "e", "l", "e", "t", "e">>, <<"U+5220", "U+9664">>>>,
       <<<<"A", "d", "d">>, <<"U+6DFB", "U+52A0">>>>,
       <<<<"R", "e", "m", "o", "v", "e">>, <<"U+79FB", "U+9664">>>>,
       <<<<"S", "e", "a", "r", "c", "h">>, <<"U+641C", "U+7D22">>>>,
       <<<<"F", "i", "n", "d">>, <<"U+67E5", "U+627E">>>>,
       <<<<"R", "e", "p", "l", "a", "c", "e">>, <<"U+66FF", "U+6362">>>>,
       <<<<"C", "o", "p", "y">>, <<"U+590D", "U+5236">>>>,
       <<<<"P", "a", "s", "t", "e">>, <<"U+7C98", "U+8D34">>>>,
       <<<<"C", "u", "t">>, <<"U+526A", "U+5207">>>>,
       <<<<"U", "n", "d", "o">>, <<"U+64A4", "U+9500">>>>,
       <<<<"R", "e", "d", "o">>, <<"U+91CD", "U+505A">>>> >>

\* the table of tryFallbackTranslation
fallbackTranslations ==
    << <<<<"S", "e", "t", "t", "i", "n", "g", "s">>, <<"U+8BBE", "U+7F6E">>>>,
       <<<<"P", "r", "e", "f", "e", "r", "e", "n", "c", "e", "s">>, <<"U+504F", "U+597D", "U+8BBE", "U+7F6E">>>>,
       <<<<"G", "e", "n", "e", "r", "a", "l">>, <<"U+5E38", "U+89C4">>>>,
       <<<<"A", "d", "v", "a", "n", "c", "e", "d">>, <<"U+9AD8", "U+7EA7">>>>,
       <<<<"C", "a", "n", "c", "e", "l">>, <<"U+53D6", "U+6D88">>>>,
       <<<<"O", "K">>, <<"U+786E", "U+5B9A">>>>,
       <<<<"A", "p", "p", "l", "y">>, <<"U+5E94", "U+7528">>>>,
       <<<<"S", "a", "v", "e">>, <<"U+4FDD", "U+5B58">>>>,
       <<<<"C", "l", "o", "s", "e">>, <<"U+5173", "U+95ED">>>>,
       <<<<"O", "p", "e", "n">>, <<"U+6253", "U+5F00">>>>,
       <<<<"E", "d", "i", "t">>, <<"U+7F16", "U+8F91">>>>,
       <<<<"D", "e", "l", "e", "t", "e">>, <<"U+5220", "U+9664">>>>,
       <<<<"A", "d", "d">>, <<"U+6DFB", "U+52A0">>>>,
       <<<<"R", "e", "m", "o", "v", "e">>, <<"U+79FB", "U+9664">>>>,
       <<<<"S", "e", "a", "r", "c", "h">>, <<"U+641C", "U+7D22">>>>,
       <<<<"F", "i", "n", "d">>, <<"U+67E5", "U+627E">>>>,
       <<<<"R", "e", "p", "l", "a", "c", "e">>, <<"U+66FF", "U+6362">>>>,
       <<<<"C", "o", "p", "y">>, <<"U+590D", "U+5236">>>>,
       <<<<"P", "a", "s", "t", "e">>, <<"U+7C98", "U+8D34">>>>,
       <<<<"C", "u", "t">>, <<"U+526A", "U+5207">>>>,
       <<<<"U", "n", "d", "o">>, <<"U+64A4", "U+9500">>>>,
       <<<<"R", "e", "d", "o">>, <<"U+91CD", "U+505A">>>>,
       <<<<"F", "i", "l", "e">>, <<"U+6587", "U+4EF6">>>>,
       <<<<"V", "i", "e", "w">>, <<"U+89C6", "U+56FE">>>>,
       <<<<"H", "e", "l", "p">>, <<"U+5E2E", "U+52A9">>>>,
       <<<<"T", "o", "o", "l", "s">>, <<"U+5DE5", "U+5177">>>>,
       <<<<"W", "i", "n", "d", "o", "w">>, <<"U+7A97", "U+53E3">>>>,
       <<<<"T", "e", "r", "m", "i", "n", "a", "l">>, <<"U+7EC8", "U+7AEF">>>>,
       <<<<"D", "e", "b", "u", "g">>, <<"U+8C03", "U+8BD5">>>>,
       <<<<"R", "u", "n">>, <<"U+8FD0", "U+884C">>>>,
       <<<<"S", "t", "o", "p">>, <<"U+505C", "U+6B62">>>>,
       <<<<"S", "t", "a", "r", "t">>, <<"U+5F00", "U+59CB">>>>,
       <<<<"E", "n", "d">>, <<"U+7ED3", "U+675F">>>>,
       <<<<"N", "e", "x", "t">>, <<"U+4E0B", "U+4E00", "U+4E2A">>>>,
       <<<<"P", "r", "e", "v", "i", "o", "u", "s">>, <<"U+4E0A", "U+4E00", "U+4E2A">>>>,
       <<<<"B", "a", "c", "k">>, <<"U+8FD4", "U+56DE">>>>,
       <<<<"F", "o", "r", "w", "a", "r", "d">>, <<"U+524D", "U+8FDB">>>>,
       <<<<"H", "o", "m", "e">>, <<"U+4E3B", "U+9875">>>>,
       <<<<"P", "a", "g", "e", " ", "U", "p">>, <<"U+5411", "U+4E0A", "U+7FFB", "U+9875">>>>,
       <<<<"P", "a", "g", "e", " ", "D", "o", "w", "n">>, <<"U+5411", "U+4E0B", "U+7FFB", "U+9875">>>>,
       <<<<"I", "n", "s", "e", "r", "t">>, <<"U+63D2", "U+5165">>>>,
       <<<<"E", "n", "t", "e", "r">>, <<"U+56DE", "U+8F66">>>>,
       <<<<"T", "a", "b">>, <<"U+5236", "U+8868", "U+7B26">>>>,
       <<<<"S", "p", "a", "c", "e">>, <<"U+7A7A", "U+683C">>>>,
       <<<<"E", "s", "c", "a", "p", "e">>, <<"U+9000", "U+51FA">>>>,
       <<<<"F", "1">>, <<"F", "1">>>>,
       <<<<"F", "2">>, <<"F", "2">>>>,
       <<<<"F", "3">>, <<"F", "3">>>>,
       <<<<"F", "4">>, <<"F", "4">>>>,
       <<<<"F", "5">>, <<"F", "5">>>>,
       <<<<"F", "6">>, <<"F", "6">>>>,
       <<<<"F", "7">>, <<"F", "7">>>>,
       <<<<"F", "8">>, <<"F", "8">>>>,
       <<<<"F", "9">>, <<"F", "9">>>>,
       <<<<"F", "1", "0">>, <<"F", "1", "0">>>>,
       <<<<"F", "1", "1">>, <<"F", "1", "1">>>>,
       <<<<"F", "1", "2">>, <<"F", "1", "2">>>> >>


\* TranslationProcessor.createFallbackTranslations(translations)
RECURSIVE AddFallbacks(_, _)
AddFallbacks(translations, fallbacks) ==
    IF fallbacks = <<>> THEN translations
    ELSE IF HasKey(translations, Head(fallbacks)[1])
    THEN AddFallbacks(translations, Tail(fallbacks))
    ELSE LET next == Put(translations, Head(fallbacks)[1], Head(fallbacks)[2])
         IN  CASE Len(next) > 0 -> AddFallbacks(next, Tail(fallbacks))

createFallbackTranslations(translations) == AddFallbacks(translations, commonFallbacks)

(***************************************************************************)
(* Loading zh-cn.json.  The file is given by what JSON.parse makes of it:  *)
(* Null when it is missing, unreadable or malformed, else a grouped        *)
(* dictionary whose groups are objects or NotAnObject.                     *)
(***************************************************************************)
Null == "null"

NotAnObject == << <<"NotAnObject">> >>

\* the structure check without its test for an empty object
validateTranslationStructure_anySize(groupedTranslations) ==
    /\ groupedTranslations # NotAnObject
    /\ \A k \in 1..Len(groupedTranslations) : groupedTranslations[k][2] # NotAnObject

\* TranslationProcessor.validateTranslationStructure
validateTranslationStructure(groupedTranslations) ==
    /\ groupedTranslations # NotAnObject
    /\ Len(groupedTranslations) # 0
    /\ \A k \in 1..Len(groupedTranslations) : groupedTranslations[k][2] # NotAnObject

\* TranslationProcessor.loadTranslations, by the parsed content of the file
loadTranslations(parsed) ==
    IF parsed = Null THEN Null
    ELSE IF ~validateTranslationStructure(parsed) THEN Null
    ELSE flattenTranslations(parsed)

\* step 4 of PatchApplier.applyTranslations: the loaded dictionary, or the
\* basic fallback dictionary when loading failed
translationsFor(parsed) ==
    IF loadTranslations(parsed) = Null
    THEN createFallbackTranslations(<<>>)
    ELSE loadTranslations(parsed)

\* PatchApplier.tryFallbackTranslation
tryFallbackTranslation(content, mode) ==
    TranslationProcessor_applyTranslations(content, fallbackTranslations, mode)

\* step 7 without the zero-hit test: the result is written whatever it counted
patchOf_unchecked(content, translations, mode) ==
    LET result == TranslationProcessor_applyTranslations(content, translations, mode)
    IN  [via |-> "main", content |-> result.content, result |-> result]

\* steps 6 and 7 of PatchApplier.applyTranslations: what is handed to
\* finalizeTranslation, if anything.  via is "main", "fallback", or "none"
\* when no replacement was made by either dictionary
patchOf(content, translations, mode) ==
    LET result == TranslationProcessor_applyTranslations(content, translations, mode)
    IN  IF result.replacementsCount = 0
        THEN LET fallbackResult == tryFallbackTranslation(content, mode)
             IN  IF fallbackResult.replacementsCount > 0
                 THEN [via |-> "fallback", content |-> fallbackResult.content,
                       result |-> result]
                 ELSE [via |-> "none", content |-> content, result |-> result]
        ELSE [via |-> "main", content |-> result.content, result |-> result]

(***************************************************************************)
(* The file system: a function from the four paths the patcher touches to  *)
(* the file's content, or Absent.  An fs call that can raise takes its     *)
(* outcome as an argument; the actions draw it.                            *)
(***************************************************************************)
\* no file at the path (a sequence, as a content is, that no content equals)
Absent == <<"Absent">>

Paths == {"target", "backup", "target.temp", "backup.temp"}

\* safeWriteFile that writes the file in place
tempPath_none(filePath) == filePath

\* a safeWriteFile whose scratch file is the target itself
tempPath_target(filePath) == "target"

\* `${filePath}${TEMP_SUFFIX}`
tempPath(filePath) == IF filePath = "target" THEN "target.temp" ELSE "backup.temp"

\* fs.writeFileSync(path, content): "ok", "failed" (raised before the file
\* was opened) or "partial" (raised after truncating, part of it written)
writeFileSync(fs, path, content, outcome) ==
    IF outcome = "ok" THEN [fs EXCEPT ![path] = content]
    ELSE IF outcome = "partial"
    THEN [fs EXCEPT ![path] = SubSeq(content, 1, Len(content) \div 2)]
    ELSE fs

\* fs.renameSync(from, to): replaces the file at to in one step, or raises
renameSync(fs, from, to, outcome) ==
    IF outcome = "ok" /\ from # to
    THEN [fs EXCEPT ![to] = fs[from], ![from] = Absent]
    ELSE fs

\* an unlink that removes nothing
unlinkSync_skipped(fs, path, outcome) == fs

\* fs.unlinkSync(path), or it raises
unlinkSync(fs, path, outcome) ==
    IF outcome = "ok" THEN [fs EXCEPT ![path] = Absent] ELSE fs

\* FileUtils.safeReadFile: the content, or Null when the file is absent or
\* readFileSync raises
safeReadFile(fs, path, raises) ==
    IF fs[path] = Absent \/ raises THEN Null ELSE fs[path]

Marker_function == <<"f", "u", "n", "c", "t", "i", "o", "n">>

Marker_var == <<"v", "a", "r">>

Marker_const == <<"c", "o", "n", "s", "t">>

\* FileUtils.validateFile(filePath) with isJSFile = true
validateFile(fs, path, raises) ==
    /\ fs[path] # Absent
    /\ ~raises
    /\ Len(fs[path]) # 0
    /\ \/ Includes(fs[path], Marker_function)
       \/ Includes(fs[path], Marker_var)
       \/ Includes(fs[path], Marker_const)

WriteOutcomes == {"ok", "failed", "partial"}

Outcomes == {"ok", "failed"}

(***************************************************************************)
(* Inputs of the patcher model: the contents a target file starts with and *)
(* the states of translations/zh-cn.json an invocation can find.           *)
(***************************************************************************)
Zh_File == <<"U+6587", "U+4EF6">>

TextMain == <<"v", "a", "r", " ", "a", "=", DQ, "m", ".", "F", "i", "l", "e", DQ, ",", "b", "=", SQ, "E", "d", "i", "t", SQ>>

TextFallback == <<"c", "o", "n", "s", "t", " ", "a", "=", DQ, "F", "i", "l", "e", DQ, ",", "b", "=", DQ, "E", "d", "i", "t", DQ>>

TextMarkerInLiteral == <<"a", "=", DQ, "m", ".", "v", "a", "r", DQ>>

TextNoMarker == <<"a", "=", DQ, "F", "i", "l", "e", DQ>>

PristineTexts == {TextMain, TextFallback, TextMarkerInLiteral, TextNoMarker, <<>>}

DictNames == {"missing", "File", "var"}

\* the number of invocations (apply, restore, diagnose fix) in a run
MaxOps == 3

\* the parsed content of zh-cn.json in each of its states
DictFile(name) ==
    CASE name = "File" -> << <<<<"m">>, << <<<<"F", "i", "l", "e">>, Zh_File>> >> >> >>
      [] name = "var" -> << <<<<"m">>, << <<<<"v", "a", "r">>, <<"V">>>> >> >> >>
      [] OTHER -> Null

Modes == {"direct", "bilingual"}

(***************************************************************************)
(* State                                                                   *)
(***************************************************************************)
VARIABLES
    files,      \* the file system
    pc,         \* where the running invocation stands; "idle" between invocations
    call,       \* the running invocation: operation, arguments, files at its start
    write,      \* the safeWriteFile call in progress, and who awaits its result
    result,     \* what the last invocation returned, and where it returned
    ops,        \* the number of invocations started
    pristine,   \* the content of the target before any patch (history)
    ev,         \* the step taken last (history)
    eng         \* the substitution engine run on its own (section 4.4)

vars == <<files, pc, call, write, result, ops, pristine, ev, eng>>

NoCall == [op |-> "none", mode |-> "direct", isFast |-> FALSE, dict |-> "missing",
           target0 |-> Absent, backup0 |-> Absent, again |-> FALSE, after |-> FALSE]

NoWrite == [path |-> "none", content |-> <<>>, old |-> Absent, cont |-> "none",
            isFast |-> FALSE, ok |-> FALSE]

NoResult == [op |-> "none", mode |-> "direct", isFast |-> FALSE, dict |-> "missing",
             target0 |-> Absent, backup0 |-> Absent, again |-> FALSE, after |-> FALSE,
             ok |-> FALSE, at |-> "none"]

NoEv == [step |-> "none", had |-> FALSE]

NoEng == [at |-> "off"]

\* the invocation c returns ok to main from the place named at, leaving fs
Return(c, ok, at, fs) ==
    /\ files' = fs
    /\ pc' = "idle"
    /\ call' = NoCall
    /\ write' = NoWrite
    /\ result' = [op |-> c.op, mode |-> c.mode, isFast |-> c.isFast, dict |-> c.dict,
                  target0 |-> c.target0, backup0 |-> c.backup0, again |-> c.again,
                  after |-> c.after,
                  ok |-> ok, at |-> at]

\* FileUtils.safeWriteFile(path, content) is entered; cont names the caller
Enter_safeWriteFile(c, fs, path, content, cont, isFast) ==
    /\ files' = fs
    /\ pc' = "writeTemp"
    /\ call' = c
    /\ write' = [path |-> path, content |-> content, old |-> fs[path], cont |-> cont,
                 isFast |-> isFast, ok |-> FALSE]
    /\ result' = NoResult

(***************************************************************************)
(* FileUtils.safeWriteFile, in its two steps                               *)
(***************************************************************************)
\* fs.writeFileSync(tempPath, content, 'utf-8')
safeWriteFile_write ==
    /\ pc = "writeTemp"
    /\ \E outcome \in WriteOutcomes :
          /\ files' = writeFileSync(files, tempPath(write.path), write.content, outcome)
          /\ pc' = IF outcome = "ok" THEN "rename" ELSE "return"
    /\ ev' = [step |-> "safeWriteFile_write", had |-> FALSE]
    /\ UNCHANGED <<call, write, result, ops, pristine, eng>>

\* fs.renameSync(tempPath, filePath); return true, or false from the catch
safeWriteFile_rename ==
    /\ pc = "rename"
    /\ \E outcome \in Outcomes :
          /\ files' = renameSync(files, tempPath(write.path), write.path, outcome)
          /\ write' = [write EXCEPT !.ok = (outcome = "ok")]
    /\ pc' = "return"
    /\ ev' = [step |-> "safeWriteFile_rename", had |-> FALSE]
    /\ UNCHANGED <<call, result, ops, pristine, eng>>

(***************************************************************************)
(* PatchApplier.applyTranslations(mode, cursorPath, isFast)                *)
(***************************************************************************)
\* steps 1 and 2: the target exists and, unless fast, passes validateFile
PatchApplier_applyTranslations(mode, isFast, dict) ==
    /\ pc = "idle"
    /\ ops < MaxOps
    /\ ops' = ops + 1
    /\ LET c == [op |-> "apply", mode |-> mode, isFast |-> isFast, dict |-> dict,
                 target0 |-> files["target"], backup0 |-> files["backup"],
                 again |-> result.op = "apply" /\ result.ok /\ result.mode = mode
                           /\ result.dict = dict,
                 after |-> FALSE]
       IN  \E raises \in BOOLEAN :
              IF files["target"] = Absent
              THEN Return(c, FALSE, "noTarget", files)
              ELSE IF ~isFast /\ ~validateFile(files, "target", raises)
              THEN Return(c, FALSE, "invalidTarget", files)
              ELSE /\ pc' = "createBackup"
                   /\ call' = c
                   /\ UNCHANGED <<files, write>> /\ result' = NoResult
    /\ ev' = [step |-> "applyTranslations", had |-> files["backup"] # Absent]
    /\ UNCHANGED <<pristine, eng>>

\* createBackup that copies the target whether or not a backup exists
backupMissing_always(fs) == TRUE

\* !fs.existsSync(backupFile): createBackup copies the target
backupMissing(fs) == fs["backup"] = Absent

\* step 3, PatchApplier.createBackup, up to the write of its safeCopyFile
createBackup ==
    /\ pc = "createBackup"
    /\ IF backupMissing(files)
       THEN \E raises \in BOOLEAN :
               LET content == safeReadFile(files, "target", raises)
               IN  IF content = Null
                   THEN Return(call, FALSE, "backupFailed", files)
                   ELSE Enter_safeWriteFile(call, files, "backup", content,
                                            "createBackup", FALSE)
       ELSE /\ pc' = "load"
            /\ UNCHANGED <<files, call, write, result>>
    /\ ev' = [step |-> "createBackup", had |-> files["backup"] # Absent]
    /\ UNCHANGED <<ops, pristine, eng>>

\* createBackup, from the result of its safeCopyFile on
createBackup_return ==
    /\ pc = "return"
    /\ write.cont = "createBackup"
    /\ IF write.ok
       THEN /\ pc' = "load"
            /\ write' = NoWrite
            /\ UNCHANGED <<files, call, result>>
       ELSE Return(call, FALSE, "backupFailed", files)
    /\ ev' = [step |-> "createBackup_return", had |-> FALSE]
    /\ UNCHANGED <<ops, pristine, eng>>

\* step 5 reading the live target
sourceFile_target == "target"

\* the file step 5 reads the text to patch from
sourceFile == "backup"

\* steps 4 to 7: load the dictionary, read the backup, substitute, and
\* enter finalizeTranslation unless nothing was replaced
applyTranslations_substitute ==
    /\ pc = "load"
    /\ \E raises \in BOOLEAN :
          LET translations == translationsFor(DictFile(call.dict))
              content == safeReadFile(files, sourceFile, raises)
          IN  IF content = Null \/ content = <<>>
              THEN Return(call, FALSE, "unreadable", files)
              ELSE LET patch == patchOf(content, translations, call.mode)
                   IN  IF patch.via = "none"
                       THEN Return(call, FALSE, "noHits", files)
                       ELSE Enter_safeWriteFile(call, files, "target", patch.content,
                                "finalizeTranslation",
                                IF patch.via = "main" THEN call.isFast ELSE FALSE)
    /\ ev' = [step |-> "substitute", had |-> files["backup"] # Absent]
    /\ UNCHANGED <<ops, pristine, eng>>

\* finalizeTranslation that never validates
finalizeValidates_never(isFast) == FALSE

\* finalizeTranslation validates the written target unless it runs fast
finalizeValidates(isFast) == ~isFast

\* PatchApplier.finalizeTranslation, from the result of safeWriteFile on
finalizeTranslation_return ==
    /\ pc = "return"
    /\ write.cont = "finalizeTranslation"
    /\ IF ~write.ok
       THEN Return(call, FALSE, "writeFailed", files)
       ELSE \E invalid \in BOOLEAN, raises \in BOOLEAN :
               IF finalizeValidates(write.isFast)
                  /\ ~validateFile(files, "target", invalid)
               THEN \* restoreFromBackup(targetFile, backupFile)
                    LET content == safeReadFile(files, "backup", raises)
                    IN  IF content = Null
                        THEN Return(call, FALSE, "restoreFailed", files)
                        ELSE Enter_safeWriteFile(call, files, "target", content,
                                                 "restoreFromBackup", FALSE)
               ELSE Return(call, TRUE, "done", files)
    /\ ev' = [step |-> "finalizeTranslation_return", had |-> FALSE]
    /\ UNCHANGED <<ops, pristine, eng>>

\* finalizeTranslation returns false once its restoreFromBackup has returned
restoreFromBackup_return ==
    /\ pc = "return"
    /\ write.cont = "restoreFromBackup"
    /\ Return(call, FALSE, IF write.ok THEN "restored" ELSE "restoreFailed", files)
    /\ ev' = [step |-> "restoreFromBackup_return", had |-> FALSE]
    /\ UNCHANGED <<ops, pristine, eng>>

(***************************************************************************)
(* PatchApplier.restoreOriginal(cursorPath)                                *)
(***************************************************************************)
\* a restore that takes the backup to exist whether or not it does
backupExists_always(fs) == TRUE

\* fs.existsSync(backupFile)
backupExists(fs) == fs["backup"] # Absent

restoreOriginal ==
    /\ pc = "idle"
    /\ ops < MaxOps
    /\ ops' = ops + 1
    /\ LET c == [op |-> "restore", mode |-> "direct", isFast |-> FALSE,
                 dict |-> "missing",
                 \* history: every invocation before this one was a successful apply
                 again |-> result.op = "apply" /\ result.ok /\ (ops = 1 \/ result.again),
                 \* history: the invocation before this one was a restore that
                 \* returned true
                 after |-> result.op = "restore" /\ result.ok,
                 target0 |-> files["target"], backup0 |-> files["backup"]]
       IN  IF backupExists(files)
           THEN \E raises \in BOOLEAN :
                   LET content == safeReadFile(files, "backup", raises)
                   IN  IF content = Null
                       THEN Return(c, FALSE, "copyFailed", files)
                       ELSE Enter_safeWriteFile(c, files, "target", content,
                                                "restoreOriginal", FALSE)
           ELSE Return(c, TRUE, "noBackup", files)
    /\ ev' = [step |-> "restoreOriginal", had |-> files["backup"] # Absent]
    /\ UNCHANGED <<pristine, eng>>

\* restoreOriginal, from the result of restoreFromBackup on: the backup is
\* unlinked, and a failure to unlink it is only logged
restoreOriginal_return ==
    /\ pc = "return"
    /\ write.cont = "restoreOriginal"
    /\ IF ~write.ok
       THEN /\ Return(call, FALSE, "copyFailed", files)
            /\ ev' = [step |-> "restoreOriginal_return", had |-> TRUE]
       ELSE \E outcome \in Outcomes :
               /\ Return(call, TRUE, "done", unlinkSync(files, "backup", outcome))
               /\ ev' = [step |-> "restoreOriginal_return", had |-> outcome = "ok"]
    /\ UNCHANGED <<ops, pristine, eng>>

(***************************************************************************)
(* Diagnoser.fixCommonIssues(cursorPath)                                   *)
(***************************************************************************)
fixCommonIssues ==
    /\ pc = "idle"
    /\ ops < MaxOps
    /\ ops' = ops + 1
    /\ LET c == [op |-> "fix", mode |-> "direct", isFast |-> FALSE, dict |-> "missing",
                 again |-> FALSE, after |-> FALSE,
                 target0 |-> files["target"], backup0 |-> files["backup"]]
       IN  \E r1 \in BOOLEAN, r2 \in BOOLEAN, r3 \in BOOLEAN, r4 \in BOOLEAN,
              outcome \in Outcomes :
              LET fs1 == IF files["backup"] # Absent /\ ~validateFile(files, "backup", r1)
                         THEN unlinkSync(files, "backup", outcome)
                         ELSE files
              IN  IF fs1["target"] # Absent /\ ~validateFile(fs1, "target", r2)
                  THEN IF fs1["backup"] # Absent /\ validateFile(fs1, "backup", r3)
                       THEN LET content == safeReadFile(fs1, "backup", r4)
                            IN  IF content = Null
                                THEN Return(c, TRUE, "copyFailed", fs1)
                                ELSE Enter_safeWriteFile(c, fs1, "target", content,
                                                         "fixCommonIssues", FALSE)
                       ELSE Return(c, FALSE, "unfixable", fs1)
                  ELSE Return(c, TRUE, "done", fs1)
    /\ ev' = [step |-> "fixCommonIssues", had |-> files["backup"] # Absent]
    /\ UNCHANGED <<pristine, eng>>

\* fixCommonIssues, from the result of its safeCopyFile on
fixCommonIssues_return ==
    /\ pc = "return"
    /\ write.cont = "fixCommonIssues"
    /\ Return(call, TRUE, IF write.ok THEN "restored" ELSE "copyFailed", files)
    /\ ev' = [step |-> "fixCommonIssues_return", had |-> FALSE]
    /\ UNCHANGED <<ops, pristine, eng>>

\* the process is killed in the middle of an invocation
Kill ==
    /\ pc # "idle"
    /\ Return(call, FALSE, "killed", files)
    /\ ev' = [step |-> "Kill", had |-> FALSE]
    /\ UNCHANGED <<ops, pristine, eng>>

Init ==
    /\ pristine \in PristineTexts
    /\ files = [p \in Paths |-> IF p = "target" THEN pristine ELSE Absent]
    /\ pc = "idle"
    /\ call = NoCall
    /\ write = NoWrite
    /\ result = NoResult
    /\ ops = 0
    /\ ev = NoEv
    /\ eng = NoEng

Next ==
    \/ \E mode \in Modes, isFast \in BOOLEAN, dict \in DictNames :
          PatchApplier_applyTranslations(mode, isFast, dict)
    \/ createBackup
    \/ createBackup_return
    \/ applyTranslations_substitute
    \/ safeWriteFile_write
    \/ safeWriteFile_rename
    \/ finalizeTranslation_return
    \/ restoreFromBackup_return
    \/ restoreOriginal
    \/ restoreOriginal_return
    \/ fixCommonIssues
    \/ fixCommonIssues_return
    \/ Kill

Spec == Init /\ [][Next]_vars

(***************************************************************************)
(* The substitution engine on its own (section 4.4): a dictionary, either  *)
(* as zh-cn.json holds it (grouped, loaded by step 4 of                    *)
(* PatchApplier.applyTranslations) or flat as                              *)
(* TranslationProcessor.applyTranslations takes it, a text and a mode.     *)
(***************************************************************************)
ScenarioDict == << <<<<"m", "e", "n", "u">>, << <<<<"F", "i", "l", "e">>, <<"U+6587", "U+4EF6">>>>, <<<<"E", "d", "i", "t">>, <<"U+7F16", "U+8F91">>>> >>>> >>

ScenarioText == <<"v", "a", "r", " ", "a", " ", "=", " ", DQ, "F", "i", "l", "e", DQ, ";", " ", "v", "a", "r", " ", "b", " ", "=", " ", DQ, "E", "d", "i", "t", DQ, ";">>

ScenarioDirect == <<"v", "a", "r", " ", "a", " ", "=", " ", DQ, "U+6587", "U+4EF6", DQ, ";", " ", "v", "a", "r", " ", "b", " ", "=", " ", DQ, "U+7F16", "U+8F91", DQ, ";">>

GroupedDot == << <<<<"m">>, << <<<<"a", ".", "b">>, <<"A", "B">>>> >>>>, <<<<"n">>, << <<<<"C", "o", "s", "t">>, <<"U+4EF7">>>> >>>> >>

EngineGrouped == {ScenarioDict, GroupedDot}

FlatMenu == << <<<<"F", "i", "l", "e">>, <<"U+6587", "U+4EF6">>>>, <<<<"E", "d", "i", "t">>, <<"U+7F16", "U+8F91">>>> >>

FlatDot == << <<<<"a", ".", "b">>, <<"A", "B">>>> >>

FlatDollarKey == << <<<<"$", "1">>, <<"U+4E00">>>> >>

FlatDollarValue == << <<<<"C", "o", "s", "t">>, <<"$", "$", "5">>>> >>

FlatNested == << <<<<"F", "i", "l", "e">>, <<"U+6587", "U+4EF6">>>>, <<<<"F", "i", "l", "e", "r">>, <<"F">>>> >>

EngineFlat == {FlatMenu, FlatDot, FlatDollarKey, FlatDollarValue, FlatNested, <<>>}

TextDot == <<"x", "=", SQ, "a", ".", "b", SQ, "+", DQ, "a", "x", "b", DQ>>

TextDollar == <<"p", "=", DQ, "$", "1", DQ, "+", SQ, "C", "o", "s", "t", SQ>>

TextUnquoted == <<"y", "=", "F", "i", "l", "e", "+", "C", "o", "s", "t", "+", SQ, "E", "d", "i", "t", SQ, "+", DQ, "F", "i", "l", "e", "s", DQ>>

TextPrefixed == <<DQ, "m", "e", "n", "u", ".", "F", "i", "l", "e", DQ, SQ, "E", "d", "i", "t", DQ>>

TextNested == <<DQ, "F", "i", "l", "e", "r", DQ, "+", SQ, "F", "i", "l", "e", SQ, "+", DQ, "a", "x", "b", DQ>>

EngineTexts == {ScenarioText, TextDot, TextDollar, TextUnquoted, TextPrefixed, TextNested}

NoOut == [content |-> <<>>, replacementsCount |-> 0, notFound |-> <<>>, errors |-> <<>>]

\* step 4 of PatchApplier.applyTranslations on the parsed zh-cn.json
Engine_loadTranslations ==
    /\ eng.at = "input"
    /\ eng' = [eng EXCEPT !.at = "loaded", !.translations = translationsFor(eng.grouped)]
    /\ UNCHANGED <<files, pc, call, write, result, ops, pristine, ev>>

\* step 6: TranslationProcessor.applyTranslations(content, translations, mode)
Engine_applyTranslations ==
    /\ eng.at = "loaded"
    /\ eng' = [eng EXCEPT !.at = "done",
                          !.out = TranslationProcessor_applyTranslations(
                                      eng.content, eng.translations, eng.mode)]
    /\ UNCHANGED <<files, pc, call, write, result, ops, pristine, ev>>

\* step 7: what applyTranslations does with the result
Engine_checkResult ==
    /\ eng.at = "done"
    /\ eng' = [eng EXCEPT !.at = "checked",
                          !.via = patchOf(eng.content, eng.translations, eng.mode).via]
    /\ UNCHANGED <<files, pc, call, write, result, ops, pristine, ev>>

InitEngine ==
    /\ pristine = <<>>
    /\ files = [p \in Paths |-> Absent]
    /\ pc = "engine"
    /\ call = NoCall
    /\ write = NoWrite
    /\ result = NoResult
    /\ ops = 0
    /\ ev = NoEv
    /\ \E content \in EngineTexts, mode \in Modes :
          \/ \E grouped \in EngineGrouped :
                eng = [at |-> "input", form |-> "grouped", grouped |-> grouped,
                       translations |-> <<>>,
                       content |-> content, mode |-> mode, out |-> NoOut,
                       via |-> "none"]
          \/ \E translations \in EngineFlat :
                eng = [at |-> "loaded", form |-> "flat", grouped |-> <<>>,
                       translations |-> translations,
                       content |-> content, mode |-> mode, out |-> NoOut,
                       via |-> "none"]

NextEngine ==
    \/ Engine_loadTranslations
    \/ Engine_applyTranslations
    \/ Engine_checkResult

SpecEngine == InitEngine /\ [][NextEngine]_vars

(***************************************************************************)
(* Properties of the backup record and of the patcher (specification Spec) *)
(***************************************************************************)

\* C1: whenever the backup file exists, its content is the content the
\* target had before any patch was applied, through every sequence of
\* apply, restore and diagnose-fix invocations.
C1_BackupIsPristine ==
    files["backup"] # Absent => files["backup"] = pristine

\* C2: createBackup called when the backup exists reports success (apply
\* goes on to load the dictionary) and changes no file, whatever the target
\* holds; and whenever createBackup has reported success the backup exists,
\* so that a second call in a row is that no-op.
C2_CreateBackupKeepsBackup ==
    [][/\ (pc = "createBackup" /\ files["backup"] # Absent /\ ev'.step = "createBackup")
              => (files' = files /\ pc' = "load")
       /\ pc' = "load" => files'["backup"] # Absent]_vars

\* a second apply reached createBackup with a backup that differs from the
\* (patched) target, and createBackup let it be
C2_Witness ==
    /\ ev.step = "createBackup"
    /\ ev.had
    /\ pc = "load"
    /\ files["target"] # files["backup"]

\* C3: a successful apply leaves in the target the substitution over the
\* backup's content, and an apply repeated with the same dictionary and
\* mode leaves the target as the first one left it.
C3_ApplySubstitutesOverBackup ==
    (result.op = "apply" /\ result.ok) =>
        /\ files["backup"] # Absent
        /\ files["target"] = patchOf(files["backup"],
                                     translationsFor(DictFile(result.dict)),
                                     result.mode).content
        /\ result.again => files["target"] = result.target0

\* the same apply succeeded twice in a row on a target the first had patched
C3_Witness ==
    /\ result.op = "apply"
    /\ result.ok
    /\ result.again
    /\ result.target0 # files["backup"]
    /\ files["target"] = result.target0

\* C4: every step taken while safeWriteFile is in progress (the write of
\* the temporary file, the rename, an error in either, a kill) leaves the
\* file being written with its complete previous content or the complete
\* new content, and the new content appears only by the rename.
C4_SafeWriteFileAtomic ==
    [][(pc \in {"writeTemp", "rename"}) =>
          (/\ files'[write.path] = write.old \/ files'[write.path] = write.content
           /\ (files'[write.path] # write.old) => pc = "rename")]_vars

\* the process was killed after the temporary file was written and before
\* the rename replaced the target
C4_Witness ==
    /\ ev.step = "Kill"
    /\ files["target.temp"] # Absent
    /\ files["target"] # Absent
    /\ files["target"] # files["target.temp"]

\* C5 as stated: a successful restore with an existing backup leaves the
\* backup's content in the target and no backup; a restore whose copy
\* fails reports failure and leaves the backup as it was.
C5_RestoreDeletesBackup ==
    (result.op = "restore" /\ result.backup0 # Absent) =>
        /\ result.ok => (files["target"] = result.backup0 /\ files["backup"] = Absent)
        /\ result.at = "copyFailed" => (~result.ok /\ files["backup"] = result.backup0)

\* C5, amended: a successful restore with an existing backup leaves the
\* backup's content in the target, and the backup is gone unless unlinking
\* it raised, in which case it is left as it was; a restore whose copy
\* fails reports failure and leaves the backup as it was.
C5_RestoreCopiesThenUnlinks ==
    (result.op = "restore" /\ result.backup0 # Absent) =>
        /\ result.ok =>
              /\ files["target"] = result.backup0
              /\ files["backup"] = IF ev.had THEN Absent ELSE result.backup0
        /\ result.at = "copyFailed" => (~result.ok /\ files["backup"] = result.backup0)

\* a restore replaced a patched target and deleted the backup
C5_Witness ==
    /\ result.op = "restore"
    /\ result.ok
    /\ result.backup0 # Absent
    /\ result.target0 # result.backup0
    /\ files["target"] = result.backup0
    /\ files["backup"] = Absent

\* the written target is empty or has none of the language markers
GateFails(fs) == ~validateFile(fs, "target", FALSE)

\* finalizeTranslation leaves for restoreFromBackup, or fails reading the backup
RestoreAttempted ==
    \/ /\ pc' = "writeTemp"
       /\ write'.cont = "restoreFromBackup"
       /\ write'.path = "target"
       /\ write'.content = files["backup"]
    \/ /\ result'.at = "restoreFailed"
       /\ ~result'.ok

C7_WriteBackFailureRestores ==
    (result.op = "apply" /\ result.at \in {"writeFailed", "restored"})
        => files["target"] = files["backup"]

(***************************************************************************)
(* Properties of the substitution engine (specification SpecEngine)        *)
(***************************************************************************)
\* the text has "original" or 'original' at position i
QuotedAt(content, i, original) ==
    /\ content[i] \in Quotes
    /\ i + Len(original) + 1 <= Len(content)
    /\ SubSeq(content, i + 1, i + Len(original)) = original
    /\ content[i + Len(original) + 1] = content[i]

RECURSIVE RewriteLiterals(_, _, _, _)
\* content from position i on, the inner content of every quoted literal
\* original replaced by inner
RewriteLiterals(content, i, original, inner) ==
    IF i > Len(content) THEN <<>>
    ELSE IF QuotedAt(content, i, original)
    THEN <<content[i]>> \o inner \o <<content[i]>>
             \o RewriteLiterals(content, i + Len(original) + 2, original, inner)
    ELSE <<content[i]>> \o RewriteLiterals(content, i + 1, original, inner)

\* what a hit leaves between the quotes
ExpectedInner(original, translated, mode) ==
    IF mode = "bilingual" THEN original \o <<BS, NL>> \o translated ELSE translated

RECURSIVE ExpectedFrom(_, _, _)
ExpectedFrom(content, entries, mode) ==
    IF entries = <<>> THEN content
    ELSE ExpectedFrom(RewriteLiterals(content, 1, Head(entries)[1],
                          ExpectedInner(Head(entries)[1], Head(entries)[2], mode)),
                      Tail(entries), mode)

\* the text section 4.4 asks for: the pairs taken longest key first
ExpectedText(content, translations, mode) ==
    ExpectedFrom(content, sortedEntries(translations), mode)

RECURSIVE DictionaryPairsFrom(_, _)
DictionaryPairsFrom(pairs, groupedTranslations) ==
    IF groupedTranslations = <<>> THEN pairs
    ELSE LET group == Head(groupedTranslations)[2]
         IN  IF group = <<>>
             THEN DictionaryPairsFrom(pairs, Tail(groupedTranslations))
             ELSE DictionaryPairsFrom(
                      IF InvalidValue(Head(group)[2]) THEN pairs
                      ELSE Put(pairs, Head(group)[1], Head(group)[2]),
                      <<<<Head(groupedTranslations)[1], Tail(group)>>>>
                          \o Tail(groupedTranslations))

\* the (original, translated) pairs of a grouped dictionary
DictionaryPairs(groupedTranslations) == DictionaryPairsFrom(<<>>, groupedTranslations)

\* the pairs of the dictionary the run was given
PairsGiven ==
    IF eng.form = "flat" THEN eng.translations ELSE DictionaryPairs(eng.grouped)

\* C8: in direct mode every quoted literal whose content is the original
\* of a dictionary pair has its content replaced by exactly the translated
\* text, the quote kept and all other text unchanged; the grouped dictionary
\* {"menu":{"File":..,"Edit":..}} on var a = "File"; var b = "Edit"; gives
\* the two literals translated, 2 hits and no miss.
C8_DirectReplacesQuotedLiterals ==
    (eng.at = "done" /\ eng.mode = "direct") =>
        /\ eng.out.content = ExpectedText(eng.content, PairsGiven, "direct")
        /\ (eng.form = "grouped" /\ eng.grouped = ScenarioDict
               /\ eng.content = ScenarioText) =>
              /\ eng.out.content = ScenarioDirect
              /\ eng.out.replacementsCount = 2
              /\ eng.out.notFound = <<>>

\* C9: in bilingual mode every hit leaves between the kept quotes the
\* original text, the two characters backslash and n, and the translated
\* text, a "$" of the original included as it is.
C9_BilingualKeepsOriginal ==
    (eng.at = "done" /\ eng.mode = "bilingual") =>
        eng.out.content = ExpectedText(eng.content, eng.translations, "bilingual")

\* no key of the dictionary occurs in the text as a quoted literal
NoQuotedKey(content, translations) ==
    \A k \in 1..Len(translations), i \in 1..Len(content) :
        ~QuotedAt(content, i, translations[k][1])

FlatSymbol == << <<<<"F", "i", "l", "e", "s">>, ASymbol>>, <<<<"F", "i", "l", "e">>, <<"U+6587", "U+4EF6">>>>, <<<<"E", "d", "i", "t">>, <<"U+7F16", "U+8F91">>>> >>

FlatSymbolLast == << <<<<"E", "d", "i", "t">>, <<"U+7F16", "U+8F91">>>>, <<<<"a", "b">>, ASymbol>> >>

\* a dictionary one of whose translations is itself a shorter key
FlatChain == << <<<<"F", "i", "l", "e">>, <<"U+6587", "U+4EF6">>>>, <<<<"F", "i", "l", "e", "r">>, <<"F", "i", "l", "e">>>> >>

\* a dictionary one of whose translations is its own key
FlatSame == << <<<<"F", "i", "l", "e">>, <<"F", "i", "l", "e">>>>, <<<<"E", "d", "i", "t">>, <<"U+7F16", "U+8F91">>>> >>

LoopDictionaries == EngineFlat \cup {FlatSymbol, FlatSymbolLast, FlatChain, FlatSame}

\* lines 416-423: the counters and the sorted entries
Loop_sort ==
    /\ eng.at = "call"
    /\ eng' = [eng EXCEPT !.at = "loop",
                          !.entries = sortedEntries(eng.translations),
                          !.out = [content |-> eng.content, replacementsCount |-> 0,
                                   notFound |-> <<>>, errors |-> <<>>]]
    /\ UNCHANGED <<files, pc, call, write, result, ops, pristine, ev>>

\* lines 429-463: one iteration
Loop_pair ==
    /\ eng.at = "loop"
    /\ eng.entries # <<>>
    /\ eng' = [eng EXCEPT !.entries = Tail(@),
                          !.out = ApplyPair(@, Head(eng.entries)[1],
                                            Head(eng.entries)[2], eng.mode)]
    /\ UNCHANGED <<files, pc, call, write, result, ops, pristine, ev>>

\* line 476
Loop_return ==
    /\ eng.at = "loop"
    /\ eng.entries = <<>>
    /\ eng' = [eng EXCEPT !.at = "returned"]
    /\ UNCHANGED <<files, pc, call, write, result, ops, pristine, ev>>

InitLoop ==
    /\ pristine = <<>>
    /\ files = [p \in Paths |-> Absent]
    /\ pc = "loop"
    /\ call = NoCall
    /\ write = NoWrite
    /\ result = NoResult
    /\ ops = 0
    /\ ev = NoEv
    /\ \E content \in EngineTexts, mode \in Modes, translations \in LoopDictionaries :
          eng = [at |-> "call", translations |-> translations, content |-> content,
                 mode |-> mode, entries |-> <<>>, out |-> NoOut]

NextLoop ==
    \/ Loop_sort
    \/ Loop_pair
    \/ Loop_return

SpecLoop == InitLoop /\ [][NextLoop]_vars

(***************************************************************************)
(* The two flattenTranslations of the repository on grouped dictionaries   *)
(* of two categories over two original texts (specification SpecFlatten).  *)
(***************************************************************************)
RECURSIVE AssignStrings(_, _)
\* the loop of the validator's flattenTranslations over one object whose
\* values are strings or neither strings nor objects: flattened[key] = value
AssignStrings(flattened, obj) ==
    IF obj = <<>> THEN flattened
    ELSE LET next == IF Head(obj)[2] = NotAString THEN flattened
                     ELSE Put(flattened, Head(obj)[1], Head(obj)[2])
         IN  CASE Len(next) >= 0 -> AssignStrings(next, Tail(obj))

RECURSIVE AssignGroups(_, _)
\* Object.assign(flattened, this.flattenTranslations(value, ...)) for each
\* category in turn; a category that is neither a string nor an object (the
\* NotAnObject of the inputs) adds nothing
AssignGroups(flattened, obj) ==
    IF obj = <<>> THEN flattened
    ELSE IF Head(obj)[2] = NotAnObject THEN AssignGroups(flattened, Tail(obj))
    ELSE LET next == AssignStrings(flattened, AssignStrings(<<>>, Head(obj)[2]))
         IN  CASE Len(next) >= 0 -> AssignGroups(next, Tail(obj))

\* TranslationValidator.flattenTranslations(obj) on a grouped dictionary
TranslationValidator_flattenTranslations(obj) == AssignGroups(<<>>, obj)

Key_OK == <<"O", "K">>

Key_No == <<"N", "o">>

FlattenValues == {<<"U+597D">>, <<"U+662F">>}

\* the categories over the two keys, in one insertion order
FlattenGroups ==
    {<<>>}
    \cup {<< <<Key_OK, v>> >> : v \in FlattenValues}
    \cup {<< <<Key_No, v>> >> : v \in FlattenValues}
    \cup {<< <<Key_OK, v>>, <<Key_No, w>> >> : v \in FlattenValues, w \in FlattenValues}

FlattenDictionaries ==
    {<< <<<<"m">>, g1>>, <<<<"n">>, g2>> >> : g1 \in FlattenGroups, g2 \in FlattenGroups}

\* TranslationProcessor.flattenTranslations is applied
Flatten_processor ==
    /\ eng.at = "grouped"
    /\ eng' = [eng EXCEPT !.at = "flattened", !.by = "TranslationProcessor",
                          !.translations = flattenTranslations(eng.grouped)]
    /\ UNCHANGED <<files, pc, call, write, result, ops, pristine, ev>>

\* TranslationValidator.flattenTranslations is applied
Flatten_validator ==
    /\ eng.at = "grouped"
    /\ eng' = [eng EXCEPT !.at = "flattened", !.by = "TranslationValidator",
                          !.translations =
                              TranslationValidator_flattenTranslations(eng.grouped)]
    /\ UNCHANGED <<files, pc, call, write, result, ops, pristine, ev>>

InitFlatten ==
    /\ pristine = <<>>
    /\ files = [p \in Paths |-> Absent]
    /\ pc = "flatten"
    /\ call = NoCall
    /\ write = NoWrite
    /\ result = NoResult
    /\ ops = 0
    /\ ev = NoEv
    /\ \E grouped \in FlattenDictionaries :
          eng = [at |-> "grouped", grouped |-> grouped, by |-> "nobody",
                 translations |-> <<>>]

NextFlatten ==
    \/ Flatten_processor
    \/ Flatten_validator

SpecFlatten == InitFlatten /\ [][NextFlatten]_vars

(***************************************************************************)
(* TranslationProcessor.loadTranslations step by step (specification       *)
(* SpecLoad).  The file zh-cn.json is missing, unreadable, empty, not      *)
(* JSON, or holds a JSON value.  A value of typeof 'object' (an object or  *)
(* an array, whose keys are its indices) is a sequence of <<key, value>>;  *)
(* null and every value of another type is NotAnObject.                    *)
(***************************************************************************)
LoadGroup == << <<<<"F", "i", "l", "e">>, Zh_File>> >>

LoadArray == << <<<<"0">>, Zh_File>> >>

\* what a category may hold
LoadCategories == {LoadGroup, LoadArray, <<>>, NotAnObject}

\* the values of typeof 'object' with at most two keys k1, k2
ObjectsOver(k1, k2) ==
    {<<>>}
    \cup {<< <<k1, g>> >> : g \in LoadCategories}
    \cup {<< <<k1, g>>, <<k2, h>> >> : g \in LoadCategories, h \in LoadCategories}

LoadFiles ==
    {[state |-> s, kind |-> "none", value |-> NotAnObject] :
        s \in {"missing", "unreadable", "empty", "malformed"}}
    \cup {[state |-> "json", kind |-> k, value |-> NotAnObject] :
             k \in {"null", "number", "string", "boolean"}}
    \cup {[state |-> "json", kind |-> "object", value |-> v] :
             v \in ObjectsOver(<<"m">>, <<"n">>)}
    \cup {[state |-> "json", kind |-> "array", value |-> v] :
             v \in ObjectsOver(<<"0">>, <<"1">>)}

\* lines 260-264: safeReadFile returns null for a missing or unreadable
\* file, and an empty content is falsy
Load_read ==
    /\ eng.at = "call"
    /\ IF eng.file.state \in {"missing", "unreadable", "empty"}
       THEN eng' = [eng EXCEPT !.at = "returned", !.out = Null, !.log = "readFailed"]
       ELSE eng' = [eng EXCEPT !.at = "read"]
    /\ UNCHANGED <<files, pc, call, write, result, ops, pristine, ev>>

\* line 266 and the catch clause of lines 285-288
Load_parse ==
    /\ eng.at = "read"
    /\ IF eng.file.state = "malformed"
       THEN eng' = [eng EXCEPT !.at = "returned", !.out = Null, !.log = "parseFailed"]
       ELSE eng' = [eng EXCEPT !.at = "parsed"]
    /\ UNCHANGED <<files, pc, call, write, result, ops, pristine, ev>>

\* lines 269-284
Load_validate ==
    /\ eng.at = "parsed"
    /\ IF ~validateTranslationStructure(eng.file.value)
       THEN eng' = [eng EXCEPT !.at = "returned", !.out = Null,
                               !.log = "structureInvalid"]
       ELSE eng' = [eng EXCEPT !.at = "returned",
                               !.out = flattenTranslations(eng.file.value),
                               !.log = "loaded"]
    /\ UNCHANGED <<files, pc, call, write, result, ops, pristine, ev>>

InitLoad ==
    /\ pristine = <<>>
    /\ files = [p \in Paths |-> Absent]
    /\ pc = "load"
    /\ call = NoCall
    /\ write = NoWrite
    /\ result = NoResult
    /\ ops = 0
    /\ ev = NoEv
    /\ \E file \in LoadFiles :
          eng = [at |-> "call", file |-> file, out |-> Null, log |-> "none"]

NextLoad ==
    \/ Load_read
    \/ Load_parse
    \/ Load_validate

SpecLoad == InitLoad /\ [][NextLoad]_vars

(***************************************************************************)
(* TranslationValidator.validateTranslationFile (specification             *)
(* SpecValidate).  An issue is <<kind, groupName, key>>, the two names     *)
(* empty for an issue about the whole file.                                *)
(***************************************************************************)
\* the list of detectUntranslatedEntries
commonEnglishTerms ==
    << <<"P", "a", "g", "e", " ", "D", "o", "w", "n">>, <<"P", "a", "g", "e", " ", "U", "p">>, <<"F", "o", "r", "w", "a", "r", "d">>, <<"B", "a", "c", "k">>,
       <<"T", "o", "o", "l", "s">>, <<"V", "i", "e", "w">>, <<"H", "e", "l", "p">>, <<"F", "i", "l", "e">>,
       <<"E", "d", "i", "t">>, <<"S", "e", "l", "e", "c", "t", "i", "o", "n">>, <<"G", "o">>, <<"R", "u", "n">>,
       <<"T", "e", "r", "m", "i", "n", "a", "l">>, <<"W", "i", "n", "d", "o", "w">>, <<"S", "e", "a", "r", "c", "h">>, <<"R", "e", "p", "l", "a", "c", "e">>,
       <<"F", "i", "n", "d">>, <<"N", "a", "v", "i", "g", "a", "t", "e">>, <<"D", "e", "b", "u", "g">>, <<"E", "x", "t", "e", "n", "s", "i", "o", "n", "s">>,
       <<"S", "e", "t", "t", "i", "n", "g", "s">>, <<"P", "r", "e", "f", "e", "r", "e", "n", "c", "e", "s">>, <<"G", "e", "n", "e", "r", "a", "l">>, <<"A", "d", "v", "a", "n", "c", "e", "d">>,
       <<"B", "a", "s", "i", "c">>, <<"C", "a", "n", "c", "e", "l">>, <<"O", "K">>, <<"A", "p", "p", "l", "y">>,
       <<"S", "a", "v", "e">>, <<"C", "l", "o", "s", "e">>, <<"O", "p", "e", "n">>, <<"D", "e", "l", "e", "t", "e">>,
       <<"C", "o", "p", "y">>, <<"P", "a", "s", "t", "e">>, <<"C", "u", "t">>, <<"U", "n", "d", "o">>,
       <<"R", "e", "d", "o">>, <<"S", "e", "l", "e", "c", "t", " ", "A", "l", "l">>, <<"N", "e", "w", " ", "F", "i", "l", "e">>, <<"N", "e", "w", " ", "F", "o", "l", "d", "e", "r">>,
       <<"R", "e", "n", "a", "m", "e">>, <<"M", "o", "v", "e">>, <<"D", "u", "p", "l", "i", "c", "a", "t", "e">>, <<"I", "m", "p", "o", "r", "t">>,
       <<"E", "x", "p", "o", "r", "t">>, <<"U", "p", "l", "o", "a", "d">>, <<"D", "o", "w", "n", "l", "o", "a", "d">>, <<"S", "y", "n", "c">>,
       <<"L", "o", "g", "i", "n">>, <<"L", "o", "g", "o", "u", "t">>, <<"S", "i", "g", "n", " ", "I", "n">>, <<"S", "i", "g", "n", " ", "O", "u", "t">>,
       <<"A", "c", "c", "o", "u", "n", "t">>, <<"P", "r", "o", "f", "i", "l", "e">>, <<"D", "a", "s", "h", "b", "o", "a", "r", "d">>, <<"H", "o", "m", "e">>,
       <<"A", "b", "o", "u", "t">>, <<"V", "e", "r", "s", "i", "o", "n">>, <<"U", "p", "d", "a", "t", "e">>, <<"U", "p", "g", "r", "a", "d", "e">>,
       <<"I", "n", "s", "t", "a", "l", "l">>, <<"U", "n", "i", "n", "s", "t", "a", "l", "l">>, <<"E", "n", "a", "b", "l", "e">>, <<"D", "i", "s", "a", "b", "l", "e">> >>

\* value.length > 500
LongLimit == 500

\* stats.totalEntries < 10
MinEntries == 10

EscapeSequences == {<<BS, "n">>, <<BS, "t">>, <<BS, "r">>}

\* detectUntranslatedEntries: the terms of the list without a truthy entry
\* in the flattened dictionary
detectUntranslatedEntries(translations) ==
    LET flatTranslations == TranslationValidator_flattenTranslations(translations)
    IN  {k \in 1..Len(commonEnglishTerms) :
            \/ ~HasKey(flatTranslations, commonEnglishTerms[k])
            \/ Get(flatTranslations, commonEnglishTerms[k]) = <<>>}

NoStats ==
    [totalGroups |-> 0, totalEntries |-> 0, emptyEntries |-> 0, duplicateKeys |-> 0,
     longTranslations |-> 0, specialChars |-> 0, untranslatedEntries |-> 0]

Issue(acc, kind, groupName, key) ==
    [acc EXCEPT !.issues = Append(@, <<kind, groupName, key>>)]

\* the checks on the value of one entry whose key is not empty
CheckValue(acc, groupName, key, value) ==
    IF value = NotAString \/ value = <<>>
    THEN [Issue(acc, "invalidValue", groupName, key) EXCEPT !.stats.emptyEntries = @ + 1]
    ELSE IF IsBlank(value)
    THEN [Issue(acc, "emptyValue", groupName, key) EXCEPT !.stats.emptyEntries = @ + 1]
    ELSE LET long == IF Len(value) > LongLimit
                     THEN [Issue(acc, "tooLong", groupName, key)
                              EXCEPT !.stats.longTranslations = @ + 1]
                     ELSE acc
         IN  IF \E e \in EscapeSequences : Includes(value, e)
             THEN [Issue(long, "escape", groupName, key)
                      EXCEPT !.stats.specialChars = @ + 1]
             ELSE long

\* allKeys.has(fullKey), fullKey being `${groupName}.${key}`
SeenKey(acc, groupName, key) == (groupName \o <<DOT>> \o key) \in acc.allKeys

\* the body of the inner loop for one entry
CheckEntry(acc, groupName, key, value) ==
    LET counted == [acc EXCEPT !.stats.totalEntries = @ + 1]
    IN  IF key = <<>> \/ IsBlank(key)
        THEN [Issue(counted, "emptyKey", groupName, key)
                 EXCEPT !.stats.emptyEntries = @ + 1]
        ELSE LET fullKey == groupName \o <<DOT>> \o key
                 noted == IF SeenKey(counted, groupName, key)
                          THEN [counted EXCEPT !.duplicateKeys = @ \cup {fullKey},
                                               !.stats.duplicateKeys = @ + 1]
                          ELSE [counted EXCEPT !.allKeys = @ \cup {fullKey}]
             IN  CheckValue(noted, groupName, key, value)

RECURSIVE CheckEntries(_, _, _)
\* (the guard has each entry checked before the next one is taken)
CheckEntries(acc, groupName, group) ==
    IF group = <<>> THEN acc
    ELSE LET next == CheckEntry(acc, groupName, Head(group)[1], Head(group)[2])
         IN  CASE next.stats.totalEntries > 0 ->
                     CheckEntries(next, groupName, Tail(group))

\* the outer loop passing over a category that is not an object without
\* recording an issue
CheckGroup_silent(acc, groupName, group) ==
    IF group = NotAnObject
    THEN acc
    ELSE CheckEntries(acc, groupName, group)

\* the body of the outer loop for one category
CheckGroup(acc, groupName, group) ==
    IF group = NotAnObject
    THEN Issue(acc, "invalidGroup", groupName, <<>>)
    ELSE CheckEntries(acc, groupName, group)

RECURSIVE CheckGroups(_, _)
CheckGroups(acc, translations) ==
    IF translations = <<>> THEN acc
    ELSE LET next == CheckGroup(acc, Head(translations)[1], Head(translations)[2])
         IN  CASE next.stats.totalEntries >= 0 ->
                     CheckGroups(next, Tail(translations))

\* the three issues about the dictionary as a whole, in the order of the code
Aggregate(acc, untranslated) ==
    LET a1 == IF acc.duplicateKeys # {} THEN Issue(acc, "duplicates", <<>>, <<>>) ELSE acc
        a2 == IF a1.stats.totalEntries < MinEntries
              THEN Issue(a1, "tooFew", <<>>, <<>>) ELSE a1
    IN  IF untranslated # {} THEN Issue(a2, "untranslated", <<>>, <<>>) ELSE a2

\* validateTranslationFile from the parsed content of the file on
validateParsed(translations) ==
    IF translations = NotAnObject
    THEN [isValid |-> FALSE, issues |-> << <<"invalidFormat", <<>>, <<>>>> >>,
          stats |-> NoStats]
    ELSE LET untranslated == detectUntranslatedEntries(translations)
             start == [issues |-> <<>>, allKeys |-> {}, duplicateKeys |-> {},
                       stats |-> [NoStats EXCEPT
                                     !.untranslatedEntries = Cardinality(untranslated),
                                     !.totalGroups = Len(translations)]]
             acc == Aggregate(CheckGroups(start, translations), untranslated)
         IN  [isValid |-> acc.issues = <<>>, issues |-> acc.issues, stats |-> acc.stats]

\* validateTranslationFile, by the state of the file
validateTranslationFile(file) ==
    CASE file.state = "missing" ->
             [isValid |-> FALSE, issues |-> << <<"missing", <<>>, <<>>>> >>, stats |-> NoStats]
      [] file.state \in {"unreadable", "empty"} ->
             [isValid |-> FALSE, issues |-> << <<"unreadable", <<>>, <<>>>> >>, stats |-> NoStats]
      [] file.state = "malformed" ->
             [isValid |-> FALSE, issues |-> << <<"parseFailed", <<>>, <<>>>> >>, stats |-> NoStats]
      [] OTHER -> validateParsed(file.value)

\* a category that translates every term of detectUntranslatedEntries
CompleteGroup ==
    [k \in 1..Len(commonEnglishTerms) |-> <<commonEnglishTerms[k], <<"U+8BD1">>>>]

Key_bc == <<"b", ".", "c">>

Key_c == <<"c">>

ValidateKeys == {<<>>, <<" ">>, Key_OK, Key_bc, Key_c}

LongValue == [k \in 1..(LongLimit + 1) |-> "x"]

ValidateValues ==
    {<<"U+597D">>, NotAString, <<>>, <<" ">>,
     [k \in 1..LongLimit |-> "x"], LongValue,
     [k \in 1..(LongLimit + 1) |-> " "],
     <<"a", BS, "n">>, LongValue \o <<BS, "t">>}

\* the contents of category "a": nothing, not an object, one entry, two
ValidateGroups ==
    {<<>>, NotAnObject}
    \cup {<< <<key, value>> >> : key \in ValidateKeys, value \in ValidateValues}
    \cup {<< <<Key_OK, LongValue>>, <<Key_No, value>> >> :
             value \in {<<"U+597D">>, <<>>, LongValue, <<"b", BS, "r">>}}

\* the contents of category "a.b"
ValidateOthers ==
    {<<>>, NotAnObject, << <<Key_c, <<"U+662F">>>> >>, << <<Key_OK, <<"U+662F">>>> >>}

ValidateFiles ==
    {[state |-> s, kind |-> "none", value |-> NotAnObject] :
        s \in {"missing", "unreadable", "empty", "malformed"}}
    \cup {[state |-> "json", kind |-> k, value |-> NotAnObject] :
             k \in {"null", "number", "string", "boolean"}}
    \cup {[state |-> "json", kind |-> "object", value |-> <<>>]}
    \cup {[state |-> "json", kind |-> "object",
           value |-> << <<<<"a">>, g>>, <<<<"a", ".", "b">>, h>> >> \o rest] :
             g \in ValidateGroups, h \in ValidateOthers,
             rest \in {<<>>, << <<<<"m">>, CompleteGroup>> >>}}

NoReport == [isValid |-> FALSE, issues |-> <<>>, stats |-> NoStats]

\* the file is looked for, read and parsed: the three early returns
Validate_read ==
    /\ eng.at = "call"
    /\ IF eng.file.state # "json"
       THEN eng' = [eng EXCEPT !.at = "returned", !.out = validateTranslationFile(eng.file)]
       ELSE eng' = [eng EXCEPT !.at = "parsed"]
    /\ UNCHANGED <<files, pc, call, write, result, ops, pristine, ev>>

\* the parsed content is checked
Validate_check ==
    /\ eng.at = "parsed"
    /\ eng' = [eng EXCEPT !.at = "returned", !.out = validateTranslationFile(eng.file)]
    /\ UNCHANGED <<files, pc, call, write, result, ops, pristine, ev>>

InitValidate ==
    /\ pristine = <<>>
    /\ files = [p \in Paths |-> Absent]
    /\ pc = "validate"
    /\ call = NoCall
    /\ write = NoWrite
    /\ result = NoResult
    /\ ops = 0
    /\ ev = NoEv
    /\ \E file \in ValidateFiles :
          eng = [at |-> "call", file |-> file, out |-> NoReport]

NextValidate ==
    \/ Validate_read
    \/ Validate_check

SpecValidate == InitValidate /\ [][NextValidate]_vars

(***************************************************************************)
(* TranslationMerger (specification SpecMerge).  A JSON value is a record  *)
(* [t, s, kv]: t its type, s the characters of a string, kv the entries    *)
(* <<key, value>> of an object, or of an array under its indices.  A file  *)
(* is given by the value it parses to, which is also what                  *)
(* JSON.stringify(value, null, 2) writes.                                  *)
(***************************************************************************)
JStr(s) == [t |-> "string", s |-> s, kv |-> <<>>]

\* the number 5
JNum == [t |-> "number", s |-> <<"5">>, kv |-> <<>>]

JNull == [t |-> "null", s |-> <<>>, kv |-> <<>>]

JObj(kv) == [t |-> "object", s |-> <<>>, kv |-> kv]

JArr(kv) == [t |-> "array", s |-> <<>>, kv |-> kv]

\* the property name of index i of a string or an array of up to ten places
IndexKey(i) == <<<<"0", "1", "2", "3", "4", "5", "6", "7", "8", "9">>[i + 1]>>

\* a value that is not null, 0, "" or false
Truthy(v) == v.t \in {"object", "array", "number"} \/ (v.t = "string" /\ v.s # <<>>)

\* the own enumerable properties of a value, as { ...v } and
\* Object.entries(v) see them: a string has its characters under their
\* indices, a number or null has none
OwnEntries(v) ==
    CASE v.t \in {"object", "array"} -> v.kv
      [] v.t = "string" -> [i \in 1..Len(v.s) |-> <<IndexKey(i - 1), JStr(<<v.s[i]>>)>>]
      [] OTHER -> <<>>

RECURSIVE AssignAll(_, _)
AssignAll(object, entries) ==
    IF entries = <<>> THEN object
    ELSE AssignAll(Put(object, Head(entries)[1], Head(entries)[2]), Tail(entries))

RECURSIVE deepMerge(_, _)
RECURSIVE MergeEntries(_, _)
\* the loop of deepMerge over the entries of source
MergeEntries(object, entries) ==
    IF entries = <<>> THEN object
    ELSE LET key == Head(entries)[1]
             value == Head(entries)[2]
             merged == IF value.t = "object"
                       THEN deepMerge(IF HasKey(object, key) /\ Truthy(Get(object, key))
                                      THEN Get(object, key)
                                      ELSE JObj(<<>>),
                                      value)
                       ELSE value
         IN  MergeEntries(Put(object, key, merged), Tail(entries))

\* a merge of the top level only: every value of source replaces
deepMerge_shallow(target, source) ==
    JObj(AssignAll(OwnEntries(target), OwnEntries(source)))

\* TranslationMerger.deepMerge
deepMerge(target, source) == JObj(MergeEntries(OwnEntries(target), OwnEntries(source)))

RECURSIVE CountFrom(_, _)
CountFrom(stats, entries) ==
    IF entries = <<>> THEN stats
    ELSE LET items == Head(entries)[2]
         IN  CountFrom(IF items.t \in {"object", "array"}
                       THEN [total |-> stats.total + Len(items.kv),
                             categories |-> stats.categories + 1]
                       ELSE stats,
                       Tail(entries))

\* a count of the categories in place of their keys
countTranslations_categories(translations) ==
    LET stats == CountFrom([total |-> 0, categories |-> 0], OwnEntries(translations))
    IN  [total |-> stats.categories, categories |-> stats.categories]

\* TranslationMerger.countTranslations
countTranslations(translations) ==
    CountFrom([total |-> 0, categories |-> 0], OwnEntries(translations))

\* what a category may hold in the two files
Cat_a == JObj(<< <<<<"a">>, JStr(<<"1">>)>> >>)

Cat_b == JObj(<< <<<<"b">>, JStr(<<"2">>)>> >>)

Cat_ab == JObj(<< <<<<"a">>, JStr(<<"3">>)>>, <<<<"b">>, JStr(<<"4">>)>> >>)

Cat_number == JObj(<< <<<<"a">>, JNum>> >>)

Cat_nested == JObj(<< <<<<"a">>, JObj(<< <<<<"c">>, JStr(<<"4">>)>> >>)>> >>)

MergeCategories ==
    {JObj(<<>>), Cat_a, Cat_b, Cat_ab, Cat_number, Cat_nested,
     JStr(<<"x", "y">>), JNum, JNull, JArr(<< <<<<"0">>, JStr(<<"p">>)>> >>)}

\* what a file may hold: an object of no, one or two categories
MergeValues ==
    {JObj(<<>>)}
    \cup {JObj(<< <<<<"m">>, c>> >>) : c \in MergeCategories}
    \cup {JObj(<< <<<<"m">>, c>>, <<<<"n">>, Cat_a>> >>) : c \in MergeCategories}

NoMergeStats == [total |-> 0, categories |-> 0]

NoMergeResult == [success |-> FALSE, merged |-> FALSE, reason |-> "none"]

\* the parse without the test for the addition file: a missing addition is
\* merged as an empty one
Merger_parse_unguarded ==
    /\ eng.at = "call"
    /\ IF eng.zh # "json"
       THEN eng' = [eng EXCEPT !.at = "returned",
                       !.result = [success |-> FALSE, merged |-> FALSE,
                                   reason |-> "primaryUnreadable"]]
       ELSE IF eng.yes = "malformed"
       THEN eng' = [eng EXCEPT !.at = "returned",
                       !.result = [success |-> FALSE, merged |-> FALSE,
                                   reason |-> "additionUnreadable"]]
       ELSE eng' = [eng EXCEPT !.at = "parsed",
                       !.before = countTranslations(eng.existing)]
    /\ UNCHANGED <<files, pc, call, write, result, ops, pristine, ev>>

\* lines 150-171: the two files are looked for and parsed
Merger_parse ==
    /\ eng.at = "call"
    /\ IF eng.yes = "missing"
       THEN eng' = [eng EXCEPT !.at = "returned",
                       !.result = [success |-> TRUE, merged |-> FALSE,
                                   reason |-> "noAddition"]]
       ELSE IF eng.zh # "json"
       THEN eng' = [eng EXCEPT !.at = "returned",
                       !.result = [success |-> FALSE, merged |-> FALSE,
                                   reason |-> "primaryUnreadable"]]
       ELSE IF eng.yes # "json"
       THEN eng' = [eng EXCEPT !.at = "returned",
                       !.result = [success |-> FALSE, merged |-> FALSE,
                                   reason |-> "additionUnreadable"]]
       ELSE eng' = [eng EXCEPT !.at = "parsed",
                       !.before = countTranslations(eng.existing)]
    /\ UNCHANGED <<files, pc, call, write, result, ops, pristine, ev>>

\* lines 173-176 and createBackup: the copy is written or the write fails,
\* and the merge goes on in both cases
Merger_createBackup ==
    /\ eng.at = "parsed"
    /\ \E written \in BOOLEAN :
          eng' = [eng EXCEPT !.at = "backedUp",
                             !.backupMade = written,
                             !.backupFile = IF written THEN eng.zhCnFile ELSE @]
    /\ UNCHANGED <<files, pc, call, write, result, ops, pristine, ev>>

\* lines 179-187
Merger_deepMerge ==
    /\ eng.at = "backedUp"
    /\ LET mergedTranslations == deepMerge(eng.existing, eng.new)
           afterStats == countTranslations(mergedTranslations)
       IN  eng' = [eng EXCEPT !.at = "merged",
                              !.mergedTranslations = mergedTranslations,
                              !.after = afterStats,
                              !.added = [translations |-> afterStats.total - eng.before.total,
                                         categories |-> afterStats.categories
                                                            - eng.before.categories]]
    /\ UNCHANGED <<files, pc, call, write, result, ops, pristine, ev>>

\* a token of a JSON text
Token(kind, text) == [k |-> kind, s |-> text]

\* a property name that is an array index
IsIndexKey(key) == \E i \in 0..9 : key = IndexKey(i)

RECURSIVE IndexEntries(_, _)
IndexEntries(kv, i) ==
    IF i > 9 THEN <<>>
    ELSE SelectSeq(kv, LAMBDA e : e[1] = IndexKey(i)) \o IndexEntries(kv, i + 1)

\* an enumeration of the properties last to first
PropertyOrder_reversed(kv) == [i \in 1..Len(kv) |-> kv[Len(kv) + 1 - i]]

\* the order in which the properties of an object are enumerated: the array
\* indices ascending, then the other names as they were created
PropertyOrder(kv) == IndexEntries(kv, 0) \o SelectSeq(kv, LAMBDA e : ~IsIndexKey(e[1]))

RECURSIVE JSON_stringify(_)
RECURSIVE MemberTokens(_)
RECURSIVE ElementTokens(_)
MemberTokens(kv) ==
    IF kv = <<>> THEN <<>>
    ELSE <<Token("key", Head(kv)[1])>> \o JSON_stringify(Head(kv)[2])
             \o MemberTokens(Tail(kv))

ElementTokens(kv) ==
    IF kv = <<>> THEN <<>>
    ELSE JSON_stringify(Head(kv)[2]) \o ElementTokens(Tail(kv))

\* JSON.stringify(value, null, 2), as the sequence of the tokens of its text
JSON_stringify(v) ==
    CASE v.t = "object" ->
           <<Token("{", <<>>)>> \o MemberTokens(PropertyOrder(v.kv)) \o <<Token("}", <<>>)>>
      [] v.t = "array" ->
           <<Token("[", <<>>)>> \o ElementTokens(v.kv) \o <<Token("]", <<>>)>>
      [] OTHER -> <<Token(v.t, v.s)>>

RECURSIVE ParseValue(_, _)
RECURSIVE ParseMembers(_, _, _)
RECURSIVE ParseElements(_, _, _)
\* the members of an object from token i on, up to its closing brace
ParseMembers(tokens, i, kv) ==
    IF tokens[i].k = "}" THEN [v |-> JObj(kv), next |-> i + 1]
    ELSE LET member == ParseValue(tokens, i + 1)
         IN  ParseMembers(tokens, member.next, Put(kv, tokens[i].s, member.v))

\* the elements of an array from token i on, up to its closing bracket
ParseElements(tokens, i, kv) ==
    IF tokens[i].k = "]" THEN [v |-> JArr(kv), next |-> i + 1]
    ELSE LET element == ParseValue(tokens, i)
         IN  ParseElements(tokens, element.next,
                           Append(kv, <<IndexKey(Len(kv)), element.v>>))

\* the value that starts at token i, and the index of the token after it
ParseValue(tokens, i) ==
    CASE tokens[i].k = "{" -> ParseMembers(tokens, i + 1, <<>>)
      [] tokens[i].k = "[" -> ParseElements(tokens, i + 1, <<>>)
      [] OTHER -> [v |-> [t |-> tokens[i].k, s |-> tokens[i].s, kv |-> <<>>],
                   next |-> i + 1]

\* JSON.parse(content) of a well-formed text
JSON_parse(tokens) == ParseValue(tokens, 1).v

\* lines 190-221: the merged dictionary is written, or the write fails; the
\* file is held as the parse of its text
Merger_write ==
    /\ eng.at = "merged"
    /\ \E written \in BOOLEAN :
          IF written
          THEN eng' = [eng EXCEPT !.at = "returned",
                          !.zhCnFile = JSON_parse(JSON_stringify(eng.mergedTranslations)),
                          !.written = TRUE,
                          !.result = [success |-> TRUE, merged |-> TRUE,
                                      reason |-> "merged"]]
          ELSE eng' = [eng EXCEPT !.at = "returned",
                          !.result = [success |-> FALSE, merged |-> FALSE,
                                      reason |-> "writeFailed"]]
    /\ UNCHANGED <<files, pc, call, write, result, ops, pristine, ev>>

MergeCall(yes, zh, existing, new) ==
    [at |-> "call", yes |-> yes, zh |-> zh, existing |-> existing, new |-> new,
     zhCnFile |-> existing, backupFile |-> JNull, backupMade |-> FALSE,
     written |-> FALSE, before |-> NoMergeStats, after |-> NoMergeStats,
     added |-> [translations |-> 0, categories |-> 0],
     mergedTranslations |-> JNull, result |-> NoMergeResult,
     run |-> 1, prior |-> JNull]

\* the number of runs of the merge command on the same two files
MaxMerges == 2

\* the command is run again: yes-zh-cn.json is where it was, zh-cn.json is
\* read anew; prior is what an earlier merge left in zh-cn.json (history)
Merger_run ==
    /\ eng.at = "returned"
    /\ eng.run < MaxMerges
    /\ eng' = [MergeCall(eng.yes, eng.zh, eng.zhCnFile, eng.new) EXCEPT
                  !.run = eng.run + 1,
                  !.backupFile = eng.backupFile,
                  !.prior = IF eng.result.merged THEN eng.zhCnFile ELSE eng.prior]
    /\ UNCHANGED <<files, pc, call, write, result, ops, pristine, ev>>

InitMerge ==
    /\ pristine = <<>>
    /\ files = [p \in Paths |-> Absent]
    /\ pc = "merge"
    /\ call = NoCall
    /\ write = NoWrite
    /\ result = NoResult
    /\ ops = 0
    /\ ev = NoEv
    /\ \/ \E existing \in MergeValues, new \in MergeValues :
             eng = MergeCall("json", "json", existing, new)
       \/ \E yes \in {"missing", "malformed", "json"}, zh \in {"missing", "malformed", "json"} :
             /\ yes # "json" \/ zh # "json"
             /\ eng = MergeCall(yes, zh, JObj(<<>>), JObj(<<>>))

NextMerge ==
    \/ Merger_parse
    \/ Merger_createBackup
    \/ Merger_deepMerge
    \/ Merger_write
    \/ Merger_run

SpecMerge == InitMerge /\ [][NextMerge]_vars

(***************************************************************************)
(* The command line entries (specification SpecMain): main of apply.js     *)
(* (apply and restore), of the translation validator (validate, with fix   *)
(* to repair), of translation-merger.js (merge) and of                     *)
(* translation-validator.js (detection of untranslated terms).  A command  *)
(* is given by its arguments, its environment and the result ok of the     *)
(* operation it runs; exit is -1 while the process runs.                   *)
(***************************************************************************)
Running == -1

Exit(status) == [eng EXCEPT !.at = "exited", !.exit = status]

\* apply.js lines 815-826: the merge before an apply, whose failure is only
\* logged
Main_apply_merge ==
    /\ eng.at = "start"
    /\ eng.command = "apply"
    /\ eng' = [eng EXCEPT !.at = "findPath"]
    /\ UNCHANGED <<files, pc, call, write, result, ops, pristine, ev>>

\* apply.js lines 828-834
Main_apply_findCursorPath ==
    /\ eng.at = "findPath"
    /\ eng' = IF ~eng.pathFound THEN Exit(1) ELSE [eng EXCEPT !.at = "version"]
    /\ UNCHANGED <<files, pc, call, write, result, ops, pristine, ev>>

\* apply.js lines 836-856
Main_apply_version ==
    /\ eng.at = "version"
    /\ eng' = IF ~eng.restore /\ eng.compatibility = "incompatible" /\ eng.nonInteractive
              THEN Exit(1)
              ELSE [eng EXCEPT !.at = "operate"]
    /\ UNCHANGED <<files, pc, call, write, result, ops, pristine, ev>>

\* apply.js lines 858-873: restoreOriginal or applyTranslations, then exit
Main_apply_operate ==
    /\ eng.at = "operate"
    /\ eng' = IF eng.ok THEN Exit(0) ELSE Exit(1)
    /\ UNCHANGED <<files, pc, call, write, result, ops, pristine, ev>>

\* main of the translation validator: generateReport or fixCommonIssues is
\* called and its result dropped; the process ends with status 0
Main_validate ==
    /\ eng.at = "start"
    /\ eng.command = "validate"
    /\ eng' = Exit(0)
    /\ UNCHANGED <<files, pc, call, write, result, ops, pristine, ev>>

\* main of translation-merger.js
Main_merge ==
    /\ eng.at = "start"
    /\ eng.command = "merge"
    /\ eng' = IF eng.ok THEN Exit(0) ELSE Exit(1)
    /\ UNCHANGED <<files, pc, call, write, result, ops, pristine, ev>>

\* main of translation-validator.js
Main_detect ==
    /\ eng.at = "start"
    /\ eng.command = "detect"
    /\ eng' = IF eng.ok THEN Exit(0) ELSE Exit(1)
    /\ UNCHANGED <<files, pc, call, write, result, ops, pristine, ev>>

Command(command, restore, flag, pathFound, compatibility, nonInteractive, ok) ==
    [at |-> "start", command |-> command, restore |-> restore, flag |-> flag,
     pathFound |-> pathFound, compatibility |-> compatibility,
     nonInteractive |-> nonInteractive, ok |-> ok, exit |-> Running]

InitMain ==
    /\ pristine = <<>>
    /\ files = [p \in Paths |-> Absent]
    /\ pc = "main"
    /\ call = NoCall
    /\ write = NoWrite
    /\ result = NoResult
    /\ ops = 0
    /\ ev = NoEv
    /\ \/ \E restore \in BOOLEAN, flag \in {"none", "fast", "bilingual"},
             pathFound \in BOOLEAN,
             compatibility \in {"compatible", "incompatible", "throws"},
             nonInteractive \in BOOLEAN, ok \in BOOLEAN :
             eng = Command("apply", restore, flag, pathFound, compatibility,
                           nonInteractive, ok)
       \/ \E command \in {"validate", "merge", "detect"},
             flag \in {"none", "fix", "quiet"}, ok \in BOOLEAN :
             eng = Command(command, FALSE, flag, TRUE, "compatible", FALSE, ok)

NextMain ==
    \/ Main_apply_merge
    \/ Main_apply_findCursorPath
    \/ Main_apply_version
    \/ Main_apply_operate
    \/ Main_validate
    \/ Main_merge
    \/ Main_detect

SpecMain == InitMain /\ [][NextMain]_vars

(***************************************************************************)
(* Two invocations of PatchApplier.applyTranslations run as two processes  *)
(* on the same target and backup (specification SpecRace).  Each file      *)
(* system call is a step of its process; the code takes no lock.  The file *)
(* system itself does not fail here: a rename raises only when the         *)
(* temporary file is no longer there.  eng holds, for each process, where  *)
(* it stands (at), its arguments, its pending safeWriteFile (w) and what   *)
(* it returned (out, ok); overlap, foreign and lost are history.           *)
(***************************************************************************)
Procs == {1, 2}

Other(p) == IF p = 1 THEN 2 ELSE 1

\* the process is between its first step and its return
Busy(p) == eng.at[p] \notin {"start", "returned"}

NoPending == [path |-> "none", content |-> <<>>, cont |-> "none", isFast |-> FALSE]

\* a step of process p that leaves the record e and the file system fs
RaceStep(p, e, fs) ==
    /\ eng' = [e EXCEPT !.overlap = eng.overlap \/ Busy(Other(p))]
    /\ files' = fs
    /\ UNCHANGED <<pc, call, write, result, ops, pristine, ev>>

RaceGoto(p, label) == [eng EXCEPT !.at[p] = label]

RaceReturn(p, ok, label) ==
    [eng EXCEPT !.at[p] = "returned", !.ok[p] = ok, !.out[p] = label,
                !.w[p] = NoPending]

RaceEnter_safeWriteFile(p, path, content, cont, isFast) ==
    [eng EXCEPT !.at[p] = "writeTemp",
                !.w[p] = [path |-> path, content |-> content, cont |-> cont,
                          isFast |-> isFast]]

\* applyTranslations steps 1 and 2
Race_applyTranslations(p) ==
    /\ eng.at[p] = "start"
    /\ RaceStep(p, IF files["target"] = Absent
                   THEN RaceReturn(p, FALSE, "noTarget")
                   ELSE IF ~eng.isFast[p] /\ ~validateFile(files, "target", FALSE)
                   THEN RaceReturn(p, FALSE, "invalidTarget")
                   ELSE RaceGoto(p, "createBackup"), files)

\* createBackup: !fs.existsSync(backupFile)
Race_createBackup(p) ==
    /\ eng.at[p] = "createBackup"
    /\ RaceStep(p, RaceGoto(p, IF backupMissing(files) THEN "copyRead" ELSE "load"),
                files)

\* safeCopyFile: safeReadFile(targetFile)
Race_safeCopyFile(p) ==
    /\ eng.at[p] = "copyRead"
    /\ LET content == safeReadFile(files, "target", FALSE)
       IN  RaceStep(p, IF content = Null
                       THEN RaceReturn(p, FALSE, "backupFailed")
                       ELSE RaceEnter_safeWriteFile(p, "backup", content,
                                                    "createBackup", FALSE), files)

\* safeWriteFile: fs.writeFileSync(tempPath, content, 'utf-8')
Race_writeFileSync(p) ==
    /\ eng.at[p] = "writeTemp"
    /\ RaceStep(p, RaceGoto(p, "rename"),
                writeFileSync(files, tempPath(eng.w[p].path), eng.w[p].content, "ok"))

\* safeWriteFile: fs.renameSync(tempPath, filePath), and the caller's use of
\* the result
Race_renameSync(p) ==
    /\ eng.at[p] = "rename"
    /\ LET w == eng.w[p]
           temp == tempPath(w.path)
           renamed == files[temp] # Absent
           e == [eng EXCEPT !.lost[p] = eng.lost[p] \/ ~renamed,
                            !.foreign[p] = eng.foreign[p]
                                           \/ (renamed /\ files[temp] # w.content)]
       IN  RaceStep(p,
               CASE w.cont = "createBackup" ->
                      IF renamed
                      THEN [e EXCEPT !.at[p] = "load", !.w[p] = NoPending]
                      ELSE [e EXCEPT !.at[p] = "returned", !.ok[p] = FALSE,
                                     !.out[p] = "backupFailed", !.w[p] = NoPending]
                 [] w.cont = "finalizeTranslation" ->
                      IF renamed
                      THEN [e EXCEPT !.at[p] = "validate"]
                      ELSE [e EXCEPT !.at[p] = "returned", !.ok[p] = FALSE,
                                     !.out[p] = "writeFailed", !.w[p] = NoPending]
                 [] OTHER ->
                      [e EXCEPT !.at[p] = "returned", !.ok[p] = FALSE,
                                !.out[p] = IF renamed THEN "restored" ELSE "restoreFailed",
                                !.w[p] = NoPending],
               IF renamed THEN renameSync(files, temp, w.path, "ok") ELSE files)

\* applyTranslations steps 4 to 7
Race_substitute(p) ==
    /\ eng.at[p] = "load"
    /\ LET translations == translationsFor(DictFile(eng.dict[p]))
           content == safeReadFile(files, sourceFile, FALSE)
       IN  RaceStep(p,
               IF content = Null \/ content = <<>>
               THEN RaceReturn(p, FALSE, "unreadable")
               ELSE LET patch == patchOf(content, translations, eng.mode[p])
                    IN  IF patch.via = "none"
                        THEN RaceReturn(p, FALSE, "noHits")
                        ELSE RaceEnter_safeWriteFile(p, "target", patch.content,
                                 "finalizeTranslation",
                                 IF patch.via = "main" THEN eng.isFast[p] ELSE FALSE),
               files)

\* finalizeTranslation after its safeWriteFile
Race_finalizeTranslation(p) ==
    /\ eng.at[p] = "validate"
    /\ RaceStep(p, IF finalizeValidates(eng.w[p].isFast)
                      /\ ~validateFile(files, "target", FALSE)
                   THEN RaceGoto(p, "restoreRead")
                   ELSE RaceReturn(p, TRUE, "done"), files)

\* restoreFromBackup: safeReadFile(backupFile) of its safeCopyFile
Race_restoreFromBackup(p) ==
    /\ eng.at[p] = "restoreRead"
    /\ LET content == safeReadFile(files, "backup", FALSE)
       IN  RaceStep(p, IF content = Null
                       THEN RaceReturn(p, FALSE, "restoreFailed")
                       ELSE RaceEnter_safeWriteFile(p, "target", content,
                                                    "restoreFromBackup", FALSE), files)

RaceTexts == {TextMain, TextMarkerInLiteral}

RaceDicts == {"File", "var"}

InitRace ==
    /\ pristine \in RaceTexts
    /\ files = [p \in Paths |-> IF p = "target" THEN pristine ELSE Absent]
    /\ pc = "race"
    /\ call = NoCall
    /\ write = NoWrite
    /\ result = NoResult
    /\ ops = 0
    /\ ev = NoEv
    /\ \E mode \in [Procs -> Modes], dict \in [Procs -> RaceDicts],
          isFast \in [Procs -> BOOLEAN] :
          eng = [at |-> [p \in Procs |-> "start"], mode |-> mode, dict |-> dict,
                 isFast |-> isFast, w |-> [p \in Procs |-> NoPending],
                 ok |-> [p \in Procs |-> FALSE], out |-> [p \in Procs |-> "none"],
                 overlap |-> FALSE, foreign |-> [p \in Procs |-> FALSE],
                 lost |-> [p \in Procs |-> FALSE]]

NextRace ==
    \E p \in Procs :
       \/ Race_applyTranslations(p)
       \/ Race_createBackup(p)
       \/ Race_safeCopyFile(p)
       \/ Race_writeFileSync(p)
       \/ Race_renameSync(p)
       \/ Race_substitute(p)
       \/ Race_finalizeTranslation(p)
       \/ Race_restoreFromBackup(p)

SpecRace == InitRace /\ [][NextRace]_vars

(***************************************************************************)
(* The Logger class of apply.js and the calls made on it (specification    *)
(* SpecLogger).  eng.console is what console.log has printed, a sequence   *)
(* of <<prefix, text>>; eng.issuer is the operation that made the last     *)
(* call of Logger.step, eng.raised what that call raised and eng.done      *)
(* whether the operation went on to its work.                              *)
(***************************************************************************)
\* the static methods class Logger defines
LoggerMethods == {"info", "success", "warning", "error", "debug"}

\* the escape sequence each method prints before the message
LoggerPrefix(method) ==
    CASE method = "info" -> "none"
      [] method = "success" -> "32m"
      [] method = "warning" -> "33m"
      [] method = "error" -> "31m"
      [] OTHER -> "36m[DEBUG]"

Msg_validated == <<"U+6587", "U+4EF6", "U+9A8C", "U+8BC1", "U+901A", "U+8FC7", ":">>

Msg_copied == <<"U+6210", "U+529F", "U+590D", "U+5236", "U+6587", "U+4EF6", ":">>

LoggerMessages ==
    {<<>>, <<"a">>, Msg_validated \o <<"a">>, Msg_copied \o <<"a">>}

\* the operations that call Logger.step before their work
StepIssuers ==
    {"loadTranslations", "applyTranslations", "readFile", "finalizeTranslation",
     "testLogger"}

\* the number of lines printed in a run
MaxLog == 2

\* a call Logger[method](...): it completes when the class defines the
\* method, and raises a TypeError when it does not
Logger_call(method) == IF method \in LoggerMethods THEN "completed" ELSE "TypeError"

\* Logger.info, Logger.success, Logger.warning, Logger.error
Logger_log(method, message) ==
    /\ eng.raised = "none"
    /\ Len(eng.console) < MaxLog
    /\ Logger_call(method) = "completed"
    /\ eng' = [eng EXCEPT !.console = Append(@, <<LoggerPrefix(method), message>>)]
    /\ UNCHANGED <<files, pc, call, write, result, ops, pristine, ev>>

\* Logger.debug
Logger_debug(message) ==
    /\ eng.raised = "none"
    /\ Len(eng.console) < MaxLog
    /\ Logger_call("debug") = "completed"
    /\ LET text == IF Includes(message, Msg_validated) \/ Includes(message, Msg_copied)
                   THEN IF Includes(message, Msg_validated)
                        THEN <<"U+6587", "U+4EF6", "U+9A8C", "U+8BC1", "U+901A", "U+8FC7">>
                        ELSE <<"U+6587", "U+4EF6", "U+590D", "U+5236", "U+6210", "U+529F">>
                   ELSE message
       IN  eng' = [eng EXCEPT !.console = Append(@, <<LoggerPrefix("debug"), text>>)]
    /\ UNCHANGED <<files, pc, call, write, result, ops, pristine, ev>>

\* an operation calls Logger.step(message) and then does its work
Logger_step(issuer, message) ==
    /\ eng.raised = "none"
    /\ eng.issuer = "none"
    /\ LET outcome == Logger_call("step")
       IN  eng' = [eng EXCEPT !.issuer = issuer,
                              !.raised = IF outcome = "completed" THEN "none" ELSE outcome,
                              !.done = outcome = "completed"]
    /\ UNCHANGED <<files, pc, call, write, result, ops, pristine, ev>>

InitLogger ==
    /\ pristine = <<>>
    /\ files = [p \in Paths |-> Absent]
    /\ pc = "logger"
    /\ call = NoCall
    /\ write = NoWrite
    /\ result = NoResult
    /\ ops = 0
    /\ ev = NoEv
    /\ eng = [console |-> <<>>, issuer |-> "none", raised |-> "none", done |-> FALSE]

NextLogger ==
    \/ \E method \in {"info", "success", "warning", "error"},
          message \in LoggerMessages : Logger_log(method, message)
    \/ \E message \in LoggerMessages : Logger_debug(message)
    \/ \E issuer \in StepIssuers, message \in LoggerMessages :
          Logger_step(issuer, message)

SpecLogger == InitLogger /\ [][NextLogger]_vars

(***************************************************************************)
(* Further properties of the patcher (specification Spec)                  *)
(***************************************************************************)
\* the dictionary of the run, or else the table of tryFallbackTranslation,
\* replaces something in the text
SomeHit(content, dict, mode) ==
    \/ TranslationProcessor_applyTranslations(
           content, translationsFor(DictFile(dict)), mode).replacementsCount > 0
    \/ TranslationProcessor_applyTranslations(
           content, fallbackTranslations, mode).replacementsCount > 0

\* C11: apply reports success only if its dictionary or, after zero hits,
\* the built-in fallback dictionary made at least one replacement; when
\* neither does, apply reports failure and the target is as it was when the
\* invocation began.
C11_SuccessNeedsAHit ==
    (result.op = "apply" /\ files["backup"] # Absent) =>
        /\ result.ok => SomeHit(files["backup"], result.dict, result.mode)
        /\ result.at = "noHits" => ~SomeHit(files["backup"], result.dict, result.mode)
        /\ ~SomeHit(files["backup"], result.dict, result.mode)
              => (~result.ok /\ files["target"] = result.target0)

\* an apply found nothing to replace with either dictionary and failed,
\* the target untouched
C11_Witness ==
    /\ result.op = "apply"
    /\ result.at = "noHits"
    /\ ~result.ok
    /\ files["backup"] # Absent
    /\ files["target"] = result.target0

(***************************************************************************)
(* Properties of the loop (specification SpecLoop)                         *)
(***************************************************************************)
\* the keys of the pairs whose handling raises
RaisingKeys(translations) ==
    {translations[k][1] : k \in {j \in 1..Len(translations) :
                                    translations[j][2] = ASymbol}}

Elements(list) == {list[k] : k \in 1..Len(list)}

LastValue(groupedTranslations, key) ==
    LET k == CHOOSE j \in 1..Len(groupedTranslations) :
                 /\ HasKey(groupedTranslations[j][2], key)
                 /\ \A i \in (j + 1)..Len(groupedTranslations) :
                        ~HasKey(groupedTranslations[i][2], key)
    IN  Get(groupedTranslations[k][2], key)

OriginalKeys(groupedTranslations) ==
    UNION {Keys(groupedTranslations[j][2]) : j \in 1..Len(groupedTranslations)}

LastCategoryWins(groupedTranslations, translations) ==
    /\ Keys(translations) = OriginalKeys(groupedTranslations)
    /\ \A key \in OriginalKeys(groupedTranslations) :
          Get(translations, key) = LastValue(groupedTranslations, key)

\* C13: the flattened dictionary holds, for each original text of the grouped
\* dictionary, exactly the value of the last category that defines it, and
\* no other key.
C13_FlattenLastCategoryWins ==
    eng.at = "flattened" => LastCategoryWins(eng.grouped, eng.translations)

\* the flatten of the validator alone does so
C13_ValidatorFlattenLastCategoryWins ==
    (eng.at = "flattened" /\ eng.by = "TranslationValidator")
        => LastCategoryWins(eng.grouped, eng.translations)

(***************************************************************************)
(* Properties of loading (specification SpecLoad)                          *)
(***************************************************************************)
\* the parsed value is not of typeof 'object', or has no category, or has
\* a category that is not of typeof 'object'
StructureInvalid(file) ==
    /\ file.state = "json"
    /\ \/ file.kind \in {"null", "number", "string", "boolean"}
       \/ Len(file.value) = 0
       \/ \E k \in 1..Len(file.value) : file.value[k][2] = NotAnObject

EntriesOf(translations) ==
    UNION {{<<translations[j][1], translations[j][2][k][1], translations[j][2][k][2]>> :
               k \in 1..Len(translations[j][2])} :
           j \in {i \in 1..Len(translations) : translations[i][2] # NotAnObject}}

EmptyKey(e) == e[2] = <<>> \/ IsBlank(e[2])

EmptyValue(e) == e[3] = NotAString \/ e[3] = <<>> \/ IsBlank(e[3])

HasIssue(issues, kinds, e) ==
    \E i \in 1..Len(issues) :
        issues[i][1] \in kinds /\ issues[i][2] = e[1] /\ issues[i][3] = e[2]

Validated == eng.at = "returned" /\ eng.file.state = "json" /\ eng.file.kind = "object"

\* the counts of empty, long and escaped entries are those of the claim,
\* length and escapes being looked at in entries that are not empty
C15_CountsByClass ==
    Validated =>
        LET entries == EntriesOf(eng.file.value)
            checked == {e \in entries : ~EmptyKey(e) /\ ~EmptyValue(e)}
        IN  /\ eng.out.stats.emptyEntries = Cardinality(entries \ checked)
            /\ \A e \in entries \ checked :
                  HasIssue(eng.out.issues, {"emptyKey", "invalidValue", "emptyValue"}, e)
            /\ eng.out.stats.longTranslations
                  = Cardinality({e \in checked : Len(e[3]) > LongLimit})
            /\ eng.out.stats.specialChars
                  = Cardinality({e \in checked :
                                    \E s \in EscapeSequences : Includes(e[3], s)})

\* C15: validate counts an entry with an empty key or a non-string or empty
\* value in emptyEntries with an issue, a value of more than 500 characters
\* in longTranslations, a value with a literal \n, \t or \r in specialChars,
\* and in duplicateKeys only a repeated pair of category and key: as the
\* keys of a category are distinct, none.
C15_ValidateClassifiesEntries ==
    /\ C15_CountsByClass
    /\ Validated =>
          /\ eng.out.stats.duplicateKeys = 0
          /\ \A i \in 1..Len(eng.out.issues) : eng.out.issues[i][1] # "duplicates"

\* C16: validate on a dictionary without categories, or with a category
\* that is not an object, returns isValid = false and at least one issue.
C16_ValidateRejectsBadStructure ==
    (/\ eng.at = "returned"
     /\ eng.file.state = "json"
     /\ eng.file.kind = "object"
     /\ \/ Len(eng.file.value) = 0
        \/ \E j \in 1..Len(eng.file.value) : eng.file.value[j][2] = NotAnObject)
        => (~eng.out.isValid /\ Len(eng.out.issues) >= 1)

\* a dictionary that translates every term and has ten entries and more was
\* found invalid for its one category that is not an object
C16_Witness ==
    /\ eng.at = "returned"
    /\ eng.file.state = "json"
    /\ Len(eng.file.value) = 3
    /\ eng.file.value[1][2] = NotAnObject
    /\ eng.file.value[2][2] = <<>>
    /\ eng.file.value[3][2] = CompleteGroup
    /\ ~eng.out.isValid
    /\ eng.out.issues = << <<"invalidGroup", <<"a">>, <<>>>> >>

\* a dictionary without any fault is found valid
ValidFileIsValid ==
    (/\ eng.at = "returned"
     /\ eng.file.state = "json"
     /\ Len(eng.file.value) = 3
     /\ eng.file.value[1][2] = <<>>
     /\ eng.file.value[2][2] = <<>>) => eng.out.isValid

(***************************************************************************)
(* Properties of the merger (specification SpecMerge)                      *)
(***************************************************************************)
\* a translation dictionary: categories that are objects of strings
IsDictionary(v) ==
    /\ v.t = "object"
    /\ \A j \in 1..Len(v.kv) :
          /\ v.kv[j][2].t = "object"
          /\ \A k \in 1..Len(v.kv[j][2].kv) : v.kv[j][2].kv[k][2].t = "string"

\* the leaves <<category, key, value>> of a dictionary
Leaves(v) ==
    UNION {{<<v.kv[j][1], v.kv[j][2].kv[k][1], v.kv[j][2].kv[k][2].s>> :
               k \in 1..Len(v.kv[j][2].kv)} : j \in 1..Len(v.kv)}

LeafKeys(v) == {<<l[1], l[2]>> : l \in Leaves(v)}

UniqueKeys(kv) == Cardinality(Keys(kv)) = Len(kv)

Merged == eng.at \in {"merged", "returned"} /\ eng.mergedTranslations # JNull

\* C17: the merge of two dictionaries holds every leaf of the addition with
\* the addition's value, every leaf of the primary that the addition does
\* not have with the primary's value, and nothing else.
C17_MergeKeepsEveryLeaf ==
    (Merged /\ IsDictionary(eng.existing) /\ IsDictionary(eng.new)) =>
        LET M == eng.mergedTranslations
        IN  /\ IsDictionary(M)
            /\ UniqueKeys(M.kv)
            /\ \A j \in 1..Len(M.kv) : UniqueKeys(M.kv[j][2].kv)
            /\ Keys(M.kv) = Keys(eng.existing.kv) \cup Keys(eng.new.kv)
            /\ Leaves(M) = Leaves(eng.new)
                              \cup {l \in Leaves(eng.existing) :
                                       <<l[1], l[2]>> \notin LeafKeys(eng.new)}

\* a key of both files took the addition's value beside a key that only the
\* primary has
C17_Witness ==
    /\ eng.at = "merged"
    /\ eng.existing = JObj(<< <<<<"m">>, Cat_ab>>, <<<<"n">>, Cat_a>> >>)
    /\ eng.new = JObj(<< <<<<"m">>, Cat_a>> >>)
    /\ Leaves(eng.mergedTranslations)
          = {<<<<"m">>, <<"a">>, <<"1">>>>, <<<<"m">>, <<"b">>, <<"4">>>>,
             <<<<"n">>, <<"a">>, <<"1">>>>}

\* C18: for each key of the addition the merge recurses only when the
\* values of the primary and of the addition are both objects that are not
\* arrays; in every other case the result holds the addition's value.
C18_MergeReplacesUnlessBothObjects ==
    Merged =>
        \A key \in Keys(eng.new.kv) :
            LET b == Get(eng.new.kv, key)
                both == /\ b.t = "object"
                        /\ HasKey(eng.existing.kv, key)
                        /\ Get(eng.existing.kv, key).t = "object"
            IN  Get(eng.mergedTranslations.kv, key)
                   = IF both THEN deepMerge(Get(eng.existing.kv, key), b) ELSE b

\* a scalar of the addition does replace an object of the primary, and an
\* object of the addition a number, null or a missing key of the primary
C18_ScalarReplaces ==
    Merged =>
        \A key \in Keys(eng.new.kv) :
            LET b == Get(eng.new.kv, key)
            IN  (\/ b.t # "object"
                 \/ ~HasKey(eng.existing.kv, key)
                 \/ Get(eng.existing.kv, key).t \in {"number", "null"})
                    => Get(eng.mergedTranslations.kv, key) = b

C20_WriteOnlyAfterBackup ==
    eng.written => (eng.backupMade /\ eng.backupFile = eng.existing)

\* when the backup was made it holds the content from before the merge and
\* precedes the write
C20_BackupWhenMadeIsPreMerge ==
    (eng.at \in {"backedUp", "merged", "returned"} /\ eng.backupMade)
        => eng.backupFile = eng.existing

\* C21: when the addition file does not exist the merge reports success
\* without a merge, and the primary file and the backup file are as they
\* were.
C21_NoAdditionIsNoOp ==
    (eng.yes = "missing" /\ eng.at # "call") =>
        /\ eng.at = "returned"
        /\ eng.result.success
        /\ ~eng.result.merged
        /\ eng.result.reason = "noAddition"
        /\ eng.zhCnFile = eng.existing
        /\ ~eng.written
        /\ eng.backupFile = JNull
        /\ ~eng.backupMade

\* a merge without an addition file returned, the primary file being there
C21_Witness ==
    /\ eng.at = "returned"
    /\ eng.yes = "missing"
    /\ eng.zh = "json"
    /\ eng.result.success
    /\ ~eng.result.merged
    /\ eng.zhCnFile = eng.existing

\* the places where an apply returns false before finalizeTranslation
EarlyReturns == {"noTarget", "invalidTarget", "backupFailed", "unreadable", "noHits"}

\* C23: an apply that fails before its final write-back leaves the content of
\* the target as it was when the apply was invoked, and the target keeps that
\* content at every step before the write-back.
C23_EarlyFailureLeavesTarget ==
    /\ (result.op = "apply" /\ result.at \in EarlyReturns) =>
           (~result.ok /\ files["target"] = result.target0)
    /\ (call.op = "apply"
        /\ (pc \in {"createBackup", "load"} \/ write.cont = "createBackup")) =>
           files["target"] = call.target0

C23_Witness ==
    /\ result.op = "apply" /\ result.at = "noHits"
    /\ files["target"] = result.target0 /\ files["target"] # files["backup"]

C23_WitnessBackupFailed ==
    /\ result.op = "apply" /\ result.at = "backupFailed"
    /\ files["target"] = result.target0

(***************************************************************************)
(* The merge run again (specification SpecMerge)                           *)
(***************************************************************************)
\* C28: a merge run after a merge of the same addition file leaves the
\* content of the primary dictionary as the earlier merge left it and reports
\* no added translation: merge(merge(A, B), B) = merge(A, B).
C28_SecondMergeChangesNothing ==
    (eng.at = "returned" /\ eng.result.merged /\ eng.prior # JNull) =>
        /\ eng.zhCnFile = eng.prior
        /\ eng.added.translations = 0
        /\ eng.added.categories = 0
        /\ deepMerge(eng.prior, eng.new) = eng.prior

C28_Witness ==
    /\ eng.at = "returned" /\ eng.result.merged /\ eng.run = 2
    /\ eng.prior # JNull /\ eng.new # JObj(<<>>)
    /\ eng.zhCnFile = eng.prior /\ eng.added.translations = 0
    /\ countTranslations(eng.new).total > 0

(***************************************************************************)
(* Further properties of the loop (specification SpecLoop)                 *)
(***************************************************************************)
\* the pairs whose key is the inner content of the quoted literal at i
KeysQuotedAt(content, i, pairs) ==
    {k \in 1..Len(pairs) : QuotedAt(content, i, pairs[k][1])}

RECURSIVE TranslateLiterals(_, _, _)
\* content from position i on, every quoted literal whose inner content is a
\* key k of the pairs given the inner content D[k], all other text kept
TranslateLiterals(content, i, pairs) ==
    IF i > Len(content) THEN <<>>
    ELSE IF KeysQuotedAt(content, i, pairs) # {}
    THEN LET k == CHOOSE k \in KeysQuotedAt(content, i, pairs) : TRUE
         IN  <<content[i]>> \o pairs[k][2] \o <<content[i]>>
                 \o TranslateLiterals(content, i + Len(pairs[k][1]) + 2, pairs)
    ELSE <<content[i]>> \o TranslateLiterals(content, i + 1, pairs)

\* no translation of the dictionary holds a "$", which String.replace
\* would expand, and every pair was substituted without an error
PlainRun ==
    /\ eng.out.errors = <<>>
    /\ \A k \in 1..Len(eng.translations) :
          /\ ~InvalidValue(eng.translations[k][2])
          /\ ~Includes(eng.translations[k][2], <<"$">>)

\* some translation of the dictionary is itself a key of it
HasChain(pairs) ==
    \E j \in 1..Len(pairs), k \in 1..Len(pairs) : j # k /\ pairs[j][2] = pairs[k][1]

\* C27: in direct mode every quoted literal of the input whose inner content
\* is a key k has inner content D[k] in the output, also when D[k] is itself
\* a key: a literal one pair has produced is not rewritten by a later pair.
C27_ProducedLiteralIsFinal ==
    (eng.at = "returned" /\ eng.mode = "direct" /\ PlainRun) =>
        eng.out.content = TranslateLiterals(eng.content, 1, eng.translations)

\* the same for the dictionaries none of whose translations is a key
C27_FinalWithoutChain ==
    (eng.at = "returned" /\ eng.mode = "direct" /\ PlainRun
        /\ ~HasChain(eng.translations)) =>
        eng.out.content = TranslateLiterals(eng.content, 1, eng.translations)

\* the text has a quoted occurrence of the key
HasQuoted(content, original) ==
    \E i \in 1..Len(content) : QuotedAt(content, i, original)

\* the iteration of the loop that is taken reports its key as a miss
ReportsMiss ==
    /\ eng.at = "loop" /\ eng.entries # <<>>
    /\ eng'.out.notFound = Append(eng.out.notFound, Head(eng.entries)[1])

\* C29: a key is reported as a miss only if the text, when the key is
\* processed, has no quoted occurrence of it; a key with a quoted occurrence
\* is counted as a hit, also when its translation equals the key.
C29_MissOnlyWithoutOccurrence ==
    [][ReportsMiss => ~HasQuoted(eng.out.content, Head(eng.entries)[1])]_vars

\* the same for the pairs whose substitution changes the literal
C29_MissOnlyWithoutOccurrenceOrChange ==
    [][ReportsMiss =>
          \/ ~HasQuoted(eng.out.content, Head(eng.entries)[1])
          \/ /\ eng.mode = "direct"
             /\ Head(eng.entries)[2] = Head(eng.entries)[1]]_vars

(***************************************************************************)
(* Properties of two concurrent invocations (specification SpecRace)       *)
(***************************************************************************)
\* the backup holds a content that is not the pristine target
BackupOfPatched == files["backup"] # Absent /\ files["backup"] # pristine

\* a rename of process p found its temporary file gone
RenameLost == \E p \in Procs : eng.lost[p]

\* a rename of process p moved a content that p did not write
RenamePublishedForeign == \E p \in Procs : eng.foreign[p]

C24_WitnessRenameFails ==
    \E p \in Procs : eng.lost[p] /\ eng.out[p] = "writeFailed"

C24_WitnessRenamePublishesOther ==
    \E p \in Procs : /\ eng.foreign[p] /\ eng.at[p] = "validate"
                     /\ files["target"] # eng.w[p].content

\* a restore has returned true after a run of successful applies and nothing
\* else (one apply, or applies with the same mode and dictionary)
RestoredAfterApplies == result.op = "restore" /\ result.ok /\ result.again

C26_WitnessBackupLeft ==
    RestoredAfterApplies /\ files["target"] = pristine /\ files["backup"] = pristine

\* C30 as stated: a restore invoked when no backup file exists returns true
\* and changes no file, and a restore that returns true right after a
\* successful restore has changed no file.
C30_RestoreIsIdempotent ==
    /\ (result.op = "restore" /\ result.backup0 = Absent) =>
          /\ result.ok
          /\ files["target"] = result.target0 /\ files["backup"] = Absent
    /\ (result.op = "restore" /\ result.after /\ result.ok) =>
          /\ files["target"] = result.target0 /\ files["backup"] = result.backup0

\* C30: a restore invoked when no backup file exists returns true at once and
\* changes no file; a restore right after a successful restore leaves the
\* content of the target as it was, and is that no-op when the first has
\* deleted the backup.
C30_RestoreWithoutBackupIsNoOp ==
    /\ (result.op = "restore" /\ result.backup0 = Absent) =>
          /\ result.ok /\ result.at = "noBackup"
          /\ files["target"] = result.target0
          /\ files["backup"] = Absent
          /\ ev.step = "restoreOriginal"
    /\ (result.op = "restore" /\ result.after) =>
          /\ files["target"] = result.target0
          /\ files["backup"] \in {Absent, result.backup0}

\* a step of a restore that finds no backup changes no file at all
C30_NoFileChanges ==
    [][(pc = "idle" /\ result'.op = "restore" /\ files["backup"] = Absent)
          => (files' = files /\ pc' = "idle" /\ result'.ok)]_vars

\* a restore has returned at once, right after a restore that returned true
C30_Witness ==
    /\ result.op = "restore" /\ result.ok /\ result.at = "noBackup"
    /\ result.after /\ ops = 3 /\ files["backup"] = Absent
    /\ files["target"] = result.target0 /\ files["target"] = pristine

\* a restore right after a restore that could not delete the backup
C30_WitnessBackupLeft ==
    /\ result.op = "restore" /\ result.after /\ result.backup0 # Absent
    /\ result.ok /\ files["backup"] = Absent

(***************************************************************************)
(* Properties of the command line entries (specification SpecMain)         *)
(***************************************************************************)
\* the command did what it was asked to do
Succeeded ==
    IF eng.command = "apply"
    THEN /\ eng.pathFound
         /\ ~(~eng.restore /\ eng.compatibility = "incompatible" /\ eng.nonInteractive)
         /\ eng.ok
    ELSE eng.ok

\* C22: every command ends the process with status 0 when its operation
\* succeeded and with a non-zero status when it failed.
C22_ExitStatusTellsSuccess ==
    eng.at = "exited" => ((eng.exit = 0) <=> Succeeded)

\* the commands other than validate do so
C22_ExitStatusExceptValidate ==
    (eng.at = "exited" /\ eng.command # "validate") => ((eng.exit = 0) <=> Succeeded)

(***************************************************************************)
(* Properties of the Logger (specification SpecLogger)                     *)
(***************************************************************************)
\* C25: every Logger operation the tool calls completes without raising, and
\* the operation that logs a progress step goes on to its work.
C25_LoggerNeverRaises ==
    /\ eng.raised = "none"
    /\ eng.issuer # "none" => eng.done

\* what holds instead: the four printing methods and debug complete
C25_PrintingMethodsComplete ==
    \A method \in LoggerMethods : Logger_call(method) = "completed"

====
